---------------------------- MODULE Spec2Model ----------------------------
(***************************************************************************)
(* A model of the list-management core of Lexes: the persisted master      *)
(* table, Entry, DisplayList (filter / search / sort / build / selectAll), *)
(* SelectedList, ImportList (parseText / validateEntries / importAndClear  *)
(* / importDB), Helper.quickSort, and the MainWindow handlers that drive   *)
(* them.                                                                   *)
(*                                                                         *)
(* Python strings are sequences of one-character strings, so that strip,   *)
(* split, lower, substring search and comparison are computed, not assumed.*)
(* A createdAt timestamp "YYYY-MM-DD HH:MM:SS" is the clock reading it was *)
(* formatted from: the format is fixed-width, so string order on the       *)
(* timestamps is numeric order on the readings.                            *)
(***************************************************************************)
EXTENDS Integers, Sequences, FiniteSets, TLC

VARIABLES
    db,                       \* rows of table master, in rowid (uid) order
    nextUid,                  \* the AUTOINCREMENT sequence: uid of the next insert
    now,                      \* the wall clock read by datetime.now()
    entries,                  \* DisplayList.entries
    filterTags,               \* DisplayList.filterTags (None or a string)
    requireAllTags,           \* DisplayList.requireAllTags
    searchKeyword,            \* DisplayList.searchKeyword
    sortAttribute,            \* DisplayList.sortAttribute
    selected,                 \* SelectedList.entries
    rawText,                  \* ImportList.rawText
    entryDelimiter,           \* ImportList.entryDelimiter
    termDefinitionDelimiter,  \* ImportList.termDefinitionDelimiter
    massTags,                 \* ImportList.massTags
    parsedEntries,            \* ImportList.parsedEntries
    selectedVars,             \* DictionaryList.selected_vars (one IntVar per row)
    selectAllState,           \* selectAllToggle.state_active
    emptyMessage,             \* DictionaryList.empty_message (which text it shows)
    sidebarEntry,             \* the entry the open sidebar was made for (<<>>: no sidebar)
    op,                       \* the operation that ran last
    arg,                      \* what that operation was given (its input, kept for comparison)
    ret                       \* what that operation returned

dbVars      == <<db, nextUid, now>>
displayVars == <<entries, filterTags, requireAllTags, searchKeyword, sortAttribute>>
importVars  == <<rawText, entryDelimiter, termDefinitionDelimiter, massTags, parsedEntries>>
guiVars     == <<selectedVars, selectAllState, emptyMessage, sidebarEntry>>
callVars    == <<op, arg, ret>>
vars == <<db, nextUid, now, entries, filterTags, requireAllTags, searchKeyword,
          sortAttribute, selected, rawText, entryDelimiter, termDefinitionDelimiter,
          massTags, parsedEntries, selectedVars, selectAllState, emptyMessage,
          sidebarEntry, op, arg, ret>>

-----------------------------------------------------------------------------
(* Python values *)

\* Python's None where a string is expected (DisplayList.filterTags).
None == <<"None">>

\* Entry.uid of an Entry constructed without one (uid: int = None).
NoUid == 0

NL == "\n"

\* str.isspace for the characters of the model's alphabet.
IsSpace(c) == c \in {" ", NL, "\t"}

\* The code point of a character: Python compares strings by code point.
Ord(c) ==
    CASE c = "\t" -> 9  [] c = NL -> 10 [] c = " " -> 32 [] c = "," -> 44
      [] c = "-" -> 45  [] c = ":" -> 58 [] c = ";" -> 59 [] c = "=" -> 61
      [] c = "A" -> 65  [] c = "B" -> 66 [] c = "T" -> 84 [] c = "U" -> 85
      [] c = "a" -> 97  [] c = "b" -> 98 [] c = "t" -> 116 [] c = "u" -> 117
      [] c = "x" -> 120 [] c = "z" -> 122

\* str.lower on one character.
LowerChar(c) ==
    CASE c = "A" -> "a" [] c = "B" -> "b" [] c = "T" -> "t" [] c = "U" -> "u"
      [] OTHER -> c

\* str.lower
Lower(s) == [i \in 1..Len(s) |-> LowerChar(s[i])]

RECURSIVE LStrip(_)
LStrip(s) == IF s # <<>> /\ IsSpace(Head(s)) THEN LStrip(Tail(s)) ELSE s

RECURSIVE RStrip(_)
RStrip(s) ==
    IF s # <<>> /\ IsSpace(s[Len(s)]) THEN RStrip(SubSeq(s, 1, Len(s) - 1)) ELSE s

\* str.strip
Strip(s) == LStrip(RStrip(s))

\* sub in s (substring test)
Contains(sub, s) ==
    \E i \in 0..(Len(s) - Len(sub)) : SubSeq(s, i + 1, i + Len(sub)) = sub

\* s < t on Python strings: lexicographic by code point, a proper prefix first.
RECURSIVE StrLess(_, _)
StrLess(s, t) ==
    IF t = <<>> THEN FALSE
    ELSE IF s = <<>> THEN TRUE
    ELSE IF Head(s) = Head(t) THEN StrLess(Tail(s), Tail(t))
    ELSE Ord(Head(s)) < Ord(Head(t))

\* re.split on a pattern matching one character of delims (runs = FALSE) or a
\* maximal run of them (runs = TRUE): the pieces between the matches, empty
\* pieces kept.
RECURSIVE SplitAt(_, _, _, _, _)
SplitAt(s, delims, runs, cur, inRun) ==
    IF s = <<>> THEN <<cur>>
    ELSE IF Head(s) \in delims
         THEN IF runs /\ inRun
              THEN SplitAt(Tail(s), delims, runs, cur, TRUE)
              ELSE <<cur>> \o SplitAt(Tail(s), delims, runs, <<>>, TRUE)
         ELSE SplitAt(Tail(s), delims, runs, cur \o <<Head(s)>>, FALSE)

\* re.split(r"\s+", s)
SplitWhitespace(s) == SplitAt(s, {" ", NL, "\t"}, TRUE, <<>>, FALSE)

\* s.split(d, 1) for a one-character d: one piece when d does not occur,
\* otherwise the text before the first d and the text after it.
RECURSIVE SplitOnce(_, _, _)
SplitOnce(s, d, before) ==
    IF s = <<>> THEN <<before>>
    ELSE IF Head(s) = d THEN <<before, Tail(s)>>
    ELSE SplitOnce(Tail(s), d, before \o <<Head(s)>>)

\* The elements of a sequence
Range(q) == {q[i] : i \in 1..Len(q)}

-----------------------------------------------------------------------------
(* Entry *)

\* Entry.__init__: an object with its own identity (oid); TERM_MAX_CHAR and the
\* other caps are far above every string of the model, so nothing is truncated.
Entry(oid, uid, term, definition, tags, createdAt) ==
    [oid |-> oid, uid |-> uid, term |-> term, definition |-> definition,
     tags |-> tags, createdAt |-> createdAt]

\* x in list, for Entry objects: Entry defines no __eq__, so == is identity.
IsMember(e, list) == \E i \in 1..Len(list) : list[i].oid = e.oid

-----------------------------------------------------------------------------
(* Helper.quickSort *)

SortAttributes ==
    {"alphabeticalAscending", "alphabeticalDescending", "dateAscending", "dateDescending"}

\* A date comparison that looks at createdAt only.
DateKeyLessNoUid(a, b) == a.createdAt < b.createdAt

\* (a.createdAt, a.uid) < (b.createdAt, b.uid): Python's tuple comparison.
DateKeyLess(a, b) ==
    IF a.createdAt # b.createdAt THEN a.createdAt < b.createdAt
    ELSE IF a.uid # b.uid THEN a.uid < b.uid
    ELSE FALSE

\* A quickSort that compares the terms as written, without lower().
GoesToLesserCaseSensitive(entry, pivot, attribute) ==
    CASE attribute = "alphabeticalAscending"  -> StrLess(entry.term, pivot.term)
      [] attribute = "alphabeticalDescending" -> StrLess(pivot.term, entry.term)
      [] attribute = "dateAscending"          -> DateKeyLess(entry, pivot)
      [] attribute = "dateDescending"         -> DateKeyLess(pivot, entry)
      [] OTHER -> FALSE

\* A quickSort whose comparisons are not strict: an entry whose key equals the
\* pivot's goes before the pivot.
GoesToLesserOrEqual(entry, pivot, attribute) ==
    CASE attribute = "alphabeticalAscending"  -> ~StrLess(Lower(pivot.term), Lower(entry.term))
      [] attribute = "alphabeticalDescending" -> ~StrLess(Lower(entry.term), Lower(pivot.term))
      [] attribute = "dateAscending"          -> ~DateKeyLess(pivot, entry)
      [] attribute = "dateDescending"         -> ~DateKeyLess(entry, pivot)
      [] OTHER -> FALSE

\* The test that sends entry into lesser; an attribute outside the four names
\* matches no branch, and the entry is appended to neither list.
GoesToLesser(entry, pivot, attribute) ==
    CASE attribute = "alphabeticalAscending"  -> StrLess(Lower(entry.term), Lower(pivot.term))
      [] attribute = "alphabeticalDescending" -> StrLess(Lower(pivot.term), Lower(entry.term))
      [] attribute = "dateAscending"          -> DateKeyLess(entry, pivot)
      [] attribute = "dateDescending"         -> DateKeyLess(pivot, entry)
      [] OTHER -> FALSE

GoesToGreater(entry, pivot, attribute) ==
    attribute \in SortAttributes /\ ~GoesToLesser(entry, pivot, attribute)

\* The partition loop: the entries of rest, in order, that pass the test.
RECURSIVE Partition(_, _, _, _)
Partition(rest, pivot, attribute, wantLesser) ==
    IF rest = <<>> THEN <<>>
    ELSE LET entry == Head(rest)
             take  == IF wantLesser THEN GoesToLesser(entry, pivot, attribute)
                      ELSE GoesToGreater(entry, pivot, attribute)
         IN  (IF take THEN <<entry>> ELSE <<>>)
             \o Partition(Tail(rest), pivot, attribute, wantLesser)

RECURSIVE QuickSort(_, _)
QuickSort(list, attribute) ==
    IF Len(list) <= 1 THEN list
    ELSE LET pivot   == list[1]
             lesser  == Partition(Tail(list), pivot, attribute, TRUE)
             greater == Partition(Tail(list), pivot, attribute, FALSE)
         IN  QuickSort(lesser, attribute) \o <<pivot>> \o QuickSort(greater, attribute)

-----------------------------------------------------------------------------
(* The master table and Entry's database methods *)

\* A row of master: (uid, term, definition, tags, createdAt).
Row(uid, term, definition, tags, createdAt) ==
    [uid |-> uid, term |-> term, definition |-> definition, tags |-> tags,
     createdAt |-> createdAt]

\* An Entry.add that stores the tags as they are, untrimmed.
InsertRowUntrimmed(rows, uid, e) ==
    Append(rows, Row(uid, e.term, e.definition, e.tags, e.createdAt))

\* Entry.add: INSERT of (term, definition, tags.strip(), createdAt); the uid is
\* the next value of the AUTOINCREMENT sequence.
InsertRow(rows, uid, e) ==
    Append(rows, Row(uid, e.term, e.definition, Strip(e.tags), e.createdAt))

\* Entry.delete: DELETE FROM master WHERE uid = ?
RECURSIVE DeleteRow(_, _)
DeleteRow(rows, uid) ==
    IF rows = <<>> THEN <<>>
    ELSE IF Head(rows).uid = uid THEN DeleteRow(Tail(rows), uid)
    ELSE <<Head(rows)>> \o DeleteRow(Tail(rows), uid)

-----------------------------------------------------------------------------
(* Object identity *)

\* The identities of the Entry objects of a list.
Oids(list) == {list[i].oid : i \in 1..Len(list)}

\* The identity of the k-th object constructed while the objects of live are
\* referenced: any identity no live object has (a freed object's may be reused).
RECURSIVE NthFree(_, _, _)
NthFree(live, k, from) ==
    IF from \in live THEN NthFree(live, k, from + 1)
    ELSE IF k = 1 THEN from
    ELSE NthFree(live, k - 1, from + 1)

FreshOid(live, k) == NthFree(live, k, 1)

-----------------------------------------------------------------------------
(* DisplayList *)

\* [tag for tag in re.split(r"\s+", filterTags.strip()) if tag != ""]
RECURSIVE NonEmpty(_)
NonEmpty(pieces) ==
    IF pieces = <<>> THEN <<>>
    ELSE IF Head(pieces) # <<>> THEN <<Head(pieces)>> \o NonEmpty(Tail(pieces))
    ELSE NonEmpty(Tail(pieces))

WantedTags(tags) == NonEmpty(SplitWhitespace(Strip(tags)))

\* [rowTag.lower() for rowTag in re.split(r"\s+", row[3].strip())]
RowTags(row) ==
    LET pieces == SplitWhitespace(Strip(row.tags))
    IN  [i \in 1..Len(pieces) |-> Lower(pieces[i])]

\* A filter() whose requireAllTags branches are exchanged.
KeepsRowAnyAllSwapped(row, tags, requireAll) ==
    IF tags = None THEN Strip(row.tags) = <<>>
    ELSE LET wanted == WantedTags(tags)
         IN  IF Len(wanted) = 0 THEN TRUE
             ELSE IF requireAll
                  THEN \E i \in 1..Len(wanted) : Lower(wanted[i]) \in Range(RowTags(row))
                  ELSE \A i \in 1..Len(wanted) : Lower(wanted[i]) \in Range(RowTags(row))

\* A filter() that treats filterTags None like an empty filter.
KeepsRowNoneKeepsAll(row, tags, requireAll) ==
    IF tags = None THEN TRUE
    ELSE LET wanted == WantedTags(tags)
         IN  IF Len(wanted) = 0 THEN TRUE
             ELSE IF requireAll
                  THEN \A i \in 1..Len(wanted) : Lower(wanted[i]) \in Range(RowTags(row))
                  ELSE \E i \in 1..Len(wanted) : Lower(wanted[i]) \in Range(RowTags(row))

\* The branch of filter() that decides whether a row becomes an entry.
KeepsRow(row, tags, requireAll) ==
    IF tags = None THEN Strip(row.tags) = <<>>
    ELSE LET wanted == WantedTags(tags)
         IN  IF Len(wanted) = 0 THEN TRUE
             ELSE IF requireAll
                  THEN \A i \in 1..Len(wanted) : Lower(wanted[i]) \in Range(RowTags(row))
                  ELSE \E i \in 1..Len(wanted) : Lower(wanted[i]) \in Range(RowTags(row))

\* The rows filter() keeps, in fetch order.
RECURSIVE KeptRows(_, _, _)
KeptRows(rows, tags, requireAll) ==
    IF rows = <<>> THEN <<>>
    ELSE (IF KeepsRow(Head(rows), tags, requireAll) THEN <<Head(rows)>> ELSE <<>>)
         \o KeptRows(Tail(rows), tags, requireAll)

\* DisplayList.filter: entries becomes a new list holding one new Entry object
\* per kept row; live are the identities still referenced elsewhere.
FilterEntries(rows, tags, requireAll, live) ==
    LET kept == KeptRows(rows, tags, requireAll)
    IN  [k \in 1..Len(kept) |->
            Entry(FreshOid(live, k), kept[k].uid, kept[k].term, kept[k].definition,
                  kept[k].tags, kept[k].createdAt)]

\* A search() that looks in the term only.
MatchesKeywordTermOnly(entry, keyword) ==
    Contains(Lower(keyword), Lower(entry.term))

\* The test of the comprehension in search().
MatchesKeyword(entry, keyword) ==
    \/ Contains(Lower(keyword), Lower(entry.term))
    \/ Contains(Lower(keyword), Lower(entry.definition))
    \/ Contains(Lower(keyword), Lower(entry.tags))

RECURSIVE KeywordMatches(_, _)
KeywordMatches(list, keyword) ==
    IF list = <<>> THEN <<>>
    ELSE (IF MatchesKeyword(Head(list), keyword) THEN <<Head(list)>> ELSE <<>>)
         \o KeywordMatches(Tail(list), keyword)

\* DisplayList.search
SearchEntries(list, keyword) ==
    IF keyword = <<>> THEN list ELSE KeywordMatches(list, keyword)

\* DisplayList.sort
SortEntries(list, attribute) == QuickSort(list, attribute)

\* A build() that narrows the entries it already holds instead of reading the
\* table again.
BuildEntriesFromOld(old, rows, tags, requireAll, keyword, attribute, live) ==
    IF old = <<>>
    THEN SortEntries(SearchEntries(FilterEntries(rows, tags, requireAll, live), keyword),
                     attribute)
    ELSE SortEntries(SearchEntries(old, keyword), attribute)

\* DisplayList.build: filter(), then search(), then sort().
BuildEntries(old, rows, tags, requireAll, keyword, attribute, live) ==
    SortEntries(SearchEntries(FilterEntries(rows, tags, requireAll, live), keyword),
                attribute)

-----------------------------------------------------------------------------
(* ImportList *)

\* re.split(pattern, s) for the patterns the class and the import window use:
\* the default "\n", and "\n+", ";" and ",".
ReSplit(pattern, s) ==
    CASE pattern = "\n+" -> SplitAt(s, {NL}, TRUE, <<>>, FALSE)
      [] pattern = "\n"  -> SplitAt(s, {NL}, FALSE, <<>>, FALSE)
      [] pattern = ";"   -> SplitAt(s, {";"}, FALSE, <<>>, FALSE)
      [] pattern = ","   -> SplitAt(s, {","}, FALSE, <<>>, FALSE)

\* What a call of Helper.wikipediaAPI can do: return None, raise, or return a
\* summary (here one that holds a colon).
Raised == <<"Raised">>

Summary == <<"a", ":", "b">>

LookupOutcomes == { None, Raised, Summary }

\* Helper.wikipediaAPI(term): an empty query finds nothing, whatever the service
\* would answer; otherwise the outcome is the service's.
WikipediaAPI(term, outcome) ==
    IF Strip(term) = <<>> THEN None ELSE outcome

\* definition.replace(":", ";")
ReplaceColons(s) == [i \in 1..Len(s) |-> IF s[i] = ":" THEN ";" ELSE s[i]]

\* A lookup block without its try/except: what the lookup raised takes the
\* place of the definition.
LookedUpUncaught(term, outcome) ==
    LET found == WikipediaAPI(term, outcome)
    IN  IF found = None THEN <<>>
        ELSE IF found = Raised THEN Raised
        ELSE ReplaceColons(found)

\* The lookup block of parseText: the summary with its colons replaced, or ""
\* when the lookup returned None or raised.
LookedUp(term, outcome) ==
    LET found == WikipediaAPI(term, outcome)
    IN  IF found \in {None, Raised} THEN <<>> ELSE ReplaceColons(found)

\* The body of parseText's loop for one chunk: the (term, definition) tuple.
ParseChunk(rawEntry, delimiter, outcome) ==
    LET entry == SplitOnce(Strip(rawEntry), delimiter, <<>>)
    IN  IF Len(entry) = 2
        THEN LET term       == Strip(entry[1])
                 definition == Strip(entry[2])
             IN  <<term, IF definition = <<>> THEN LookedUp(term, outcome)
                         ELSE definition>>
        ELSE <<Strip(entry[1]), LookedUp(Strip(entry[1]), outcome)>>

\* A parseText that returns only the tuples that parsed well.
RECURSIVE ParseChunksDropsFailed(_, _, _, _)
ParseChunksDropsFailed(rawEntries, delimiter, outcomes, k) ==
    IF rawEntries = <<>> THEN <<>>
    ELSE LET t == ParseChunk(Head(rawEntries), delimiter, outcomes[k])
         IN  (IF t[1] = <<>> \/ t[2] = <<>> THEN <<>> ELSE <<t>>)
             \o ParseChunksDropsFailed(Tail(rawEntries), delimiter, outcomes, k + 1)

\* parseText's loop: one tuple per chunk, in order; outcomes[k] is what the
\* lookup does if the k-th chunk needs it.
RECURSIVE ParseChunks(_, _, _, _)
ParseChunks(rawEntries, delimiter, outcomes, k) ==
    IF rawEntries = <<>> THEN <<>>
    ELSE <<ParseChunk(Head(rawEntries), delimiter, outcomes[k])>>
         \o ParseChunks(Tail(rawEntries), delimiter, outcomes, k + 1)

\* ImportList.parseText: (successfulParse, trialParsedEntries).
ParseText(text, entryDelim, termDefDelim, outcomes) ==
    LET trial == ParseChunks(ReSplit(entryDelim, Strip(text)), termDefDelim, outcomes, 1)
    IN  [ok      |-> \A i \in 1..Len(trial) : trial[i][1] # <<>> /\ trial[i][2] # <<>>,
         entries |-> trial]

\* A validateEntries that returns False at a bad line but leaves the entries
\* of the lines before it staged.
RECURSIVE ValidateLinesKeepsStaged(_, _, _, _, _)
ValidateLinesKeepsStaged(lines, tags, clock, live, staged) ==
    IF lines = <<>> THEN [ok |-> TRUE, staged |-> staged]
    ELSE LET entry == SplitOnce(Strip(Head(lines)), ":", <<>>)
         IN  IF Len(entry) # 2 THEN [ok |-> FALSE, staged |-> staged]
             ELSE IF Strip(entry[1]) = <<>> \/ Strip(entry[2]) = <<>>
                  THEN [ok |-> FALSE, staged |-> staged]
             ELSE ValidateLinesKeepsStaged(Tail(lines), tags, clock, live,
                      Append(staged,
                             Entry(FreshOid(live, Len(staged) + 1), NoUid,
                                   Strip(entry[1]), Strip(entry[2]), tags, clock)))

\* validateEntries' loop over the lines, staged being parsedEntries so far.
RECURSIVE ValidateLines(_, _, _, _, _)
ValidateLines(lines, tags, clock, live, staged) ==
    IF lines = <<>> THEN [ok |-> TRUE, staged |-> staged]
    ELSE LET entry == SplitOnce(Strip(Head(lines)), ":", <<>>)
         IN  IF Len(entry) # 2 THEN [ok |-> FALSE, staged |-> <<>>]
             ELSE IF Strip(entry[1]) = <<>> \/ Strip(entry[2]) = <<>>
                  THEN [ok |-> FALSE, staged |-> <<>>]
             ELSE ValidateLines(Tail(lines), tags, clock, live,
                      Append(staged,
                             Entry(FreshOid(live, Len(staged) + 1), NoUid,
                                   Strip(entry[1]), Strip(entry[2]), tags, clock)))

\* A validateEntries that splits the text where entryDelimiter says.
ValidateEntriesByDelimiter(text, tags, clock, live) ==
    ValidateLines(ReSplit(entryDelimiter, Strip(text)), tags, clock, live, <<>>)

\* ImportList.validateEntries: parsedEntries is cleared, then filled line by
\* line; (returned value, parsedEntries afterwards).
ValidateEntries(text, tags, clock, live) ==
    ValidateLines(ReSplit("\n+", Strip(text)), tags, clock, live, <<>>)

\* importAndClear's loop: entry.add() for each staged entry, in order.
RECURSIVE InsertAll(_, _, _)
InsertAll(rows, uid, staged) ==
    IF staged = <<>> THEN rows
    ELSE InsertAll(InsertRow(rows, uid, Head(staged)), uid + 1, Tail(staged))

\* A database file chosen for import: whether it has a table named master,
\* that table's column names, and its rows as tuples in column order (a NULL
\* is None).
ForeignFile(master, columns, rows) ==
    [master |-> master, columns |-> columns, rows |-> rows]

\* row[3] or "": a NULL (or empty) tags column reads as no tags.
OrEmpty(value) == IF value = None THEN <<>> ELSE value

\* An importDB whose mass tags take the place of the row's tags.
CombinedTagsReplaces(mass, tags) ==
    IF Strip(mass) # <<>> THEN Strip(mass) ELSE Strip(tags)

\* f"{self.massTags.strip()} {tags.strip()}".strip()
CombinedTags(mass, tags) == Strip(Strip(mass) \o <<" ">> \o Strip(tags))

\* ImportList.importDB: one new Entry per fetched row, read by position
\* (row[1], row[2], row[3]; the tuples here start at 1) and appended to
\* parsedEntries, which is not cleared first.
ImportDB(rows, mass, clock, live, staged) ==
    staged \o
    [k \in 1..Len(rows) |->
        Entry(FreshOid(live \cup Oids(staged), k), NoUid, rows[k][2], rows[k][3],
              CombinedTags(mass, OrEmpty(rows[k][4])), clock)]

-----------------------------------------------------------------------------
(* Initial values shared by the specifications *)

\* App.setupDB on a new file: table master exists and is empty.
DbInit == db = <<>> /\ nextUid = 1 /\ now = 1

\* DisplayList.__init__ defaults (before the first build).
DisplayInit ==
    /\ entries = <<>>
    /\ filterTags = <<>>
    /\ requireAllTags = FALSE
    /\ searchKeyword = <<>>
    /\ sortAttribute = "dateDescending"

\* SelectedList.__init__
SelectedInit == selected = <<>>

\* ImportList.__init__ defaults.
ImportInit ==
    /\ rawText = <<>>
    /\ entryDelimiter = "\n"
    /\ termDefinitionDelimiter = ":"
    /\ massTags = <<>>
    /\ parsedEntries = <<>>

\* DictionaryList.__init__ / ToggleCheckboxButton.__init__
GuiInit ==
    /\ selectedVars = <<>>
    /\ selectAllState = FALSE
    /\ emptyMessage = "hidden"
    /\ sidebarEntry = <<>>

CallInit == op = "init" /\ arg = <<>> /\ ret = <<>>

\* The record of the operation that just ran: its name, what it was given and
\* what it returned (<<>> where that is nothing the claims read).
Ran(name, given, returned) == op' = name /\ arg' = given /\ ret' = returned

-----------------------------------------------------------------------------
(* Operations of Entry, DisplayList and SelectedList as actions *)

\* The most rows ever inserted in one run of SpecView or SpecSelect.
MaxRows == 2

\* What a user types for a new entry: (term, definition, tags).  One entry
\* has no tag, one a single upper-case tag, one two tags two blanks apart.
Catalogue ==
    { <<<<"b">>, <<"x">>, <<>>>>,
      <<<<"a">>, <<"B">>, <<"T">>>>,
      <<<<"A", "b">>, <<"a">>, <<"t", " ", " ", "U">>>> }

\* Values given to DisplayList.filterTags: the "no tags" sentinel, no filter,
\* two tags with blanks around them, a tag no row has.
FilterChoices ==
    { None, <<>>, <<" ", "T", " ", "u", " ">>, <<"z">> }

\* Values given to DisplayList.searchKeyword.
KeywordChoices == { <<>>, <<"A">>, <<"t">> }

\* Entry(term, definition, tags).add(): the constructor reads the clock (which
\* has moved on by the next reading), add() inserts the row.  The Entry object
\* is dropped afterwards.
EntryAdd(term, definition, tags) ==
    /\ nextUid <= MaxRows
    /\ now' = now + 1
    /\ db' = InsertRow(db, nextUid, Entry(1, NoUid, term, definition, tags, now))
    /\ nextUid' = nextUid + 1
    /\ Ran("add", <<>>, <<>>)
    /\ UNCHANGED <<entries, filterTags, requireAllTags, searchKeyword, sortAttribute,
                   selected, importVars, guiVars>>

\* entries[i].delete()
EntryDelete(i) ==
    /\ i \in 1..Len(entries)
    /\ db' = DeleteRow(db, entries[i].uid)
    /\ Ran("delete", <<>>, <<>>)
    /\ UNCHANGED <<nextUid, now, entries, filterTags, requireAllTags, searchKeyword,
                   sortAttribute, selected, importVars, guiVars>>

\* displayList.filterTags = tags
SetFilterTags(tags) ==
    /\ filterTags # tags
    /\ filterTags' = tags
    /\ Ran("set", <<>>, <<>>)
    /\ UNCHANGED <<dbVars, entries, requireAllTags, searchKeyword, sortAttribute,
                   selected, importVars, guiVars>>

\* displayList.requireAllTags = not displayList.requireAllTags
SetRequireAllTags ==
    /\ requireAllTags' = ~requireAllTags
    /\ Ran("set", <<>>, <<>>)
    /\ UNCHANGED <<dbVars, entries, filterTags, searchKeyword, sortAttribute,
                   selected, importVars, guiVars>>

\* displayList.searchKeyword = keyword
SetSearchKeyword(keyword) ==
    /\ searchKeyword # keyword
    /\ searchKeyword' = keyword
    /\ Ran("set", <<>>, <<>>)
    /\ UNCHANGED <<dbVars, entries, filterTags, requireAllTags, sortAttribute,
                   selected, importVars, guiVars>>

\* displayList.sortAttribute = attribute
SetSortAttribute(attribute) ==
    /\ sortAttribute # attribute
    /\ sortAttribute' = attribute
    /\ Ran("set", <<>>, <<>>)
    /\ UNCHANGED <<dbVars, entries, filterTags, requireAllTags, searchKeyword,
                   selected, importVars, guiVars>>

\* displayList.filter()
Filter ==
    /\ entries' = FilterEntries(db, filterTags, requireAllTags, Oids(selected))
    /\ Ran("filter", <<>>, <<>>)
    /\ UNCHANGED <<dbVars, filterTags, requireAllTags, searchKeyword, sortAttribute,
                   selected, importVars, guiVars>>

\* displayList.search()
Search ==
    /\ entries' = SearchEntries(entries, searchKeyword)
    /\ Ran("search", <<>>, <<>>)
    /\ UNCHANGED <<dbVars, filterTags, requireAllTags, searchKeyword, sortAttribute,
                   selected, importVars, guiVars>>

\* displayList.sort()
Sort ==
    /\ entries' = SortEntries(entries, sortAttribute)
    /\ Ran("sort", <<>>, <<>>)
    /\ UNCHANGED <<dbVars, filterTags, requireAllTags, searchKeyword, sortAttribute,
                   selected, importVars, guiVars>>

\* displayList.build()
Build ==
    /\ entries' = BuildEntries(entries, db, filterTags, requireAllTags, searchKeyword,
                               sortAttribute, Oids(selected))
    /\ Ran("build", <<>>, <<>>)
    /\ UNCHANGED <<dbVars, filterTags, requireAllTags, searchKeyword, sortAttribute,
                   selected, importVars, guiVars>>

\* The most entries selected at once in SpecSelect (selections from several
\* builds add up without limit).
MaxSelected == 3

\* Entry.select without the membership test.
SelectIntoAlways(e, list) == Append(list, e)

\* Entry.select: append self unless it is in the list.
SelectInto(e, list) == IF ~IsMember(e, list) THEN Append(list, e) ELSE list

\* list.remove(e): drop the first element equal to e.
RECURSIVE RemoveFirst(_, _)
RemoveFirst(list, e) ==
    IF list = <<>> THEN <<>>
    ELSE IF Head(list).oid = e.oid THEN Tail(list)
    ELSE <<Head(list)>> \o RemoveFirst(Tail(list), e)

\* Entry.unselect: remove self if it is in the list.
UnselectFrom(e, list) == IF IsMember(e, list) THEN RemoveFirst(list, e) ELSE list

\* A selectAll that appends every displayed entry, selected already or not.
SelectAllIntoAppends(list, into) == into \o list

\* DisplayList.selectAll: entry.select(selectedList) for each entry, in order.
RECURSIVE SelectAllInto(_, _)
SelectAllInto(list, into) ==
    IF list = <<>> THEN into
    ELSE SelectAllInto(Tail(list), SelectInto(Head(list), into))

\* entries[i].select(selectedList)
EntrySelect(i) ==
    /\ i \in 1..Len(entries)
    /\ Len(selected) < MaxSelected
    /\ selected' = SelectInto(entries[i], selected)
    /\ Ran("select", [entry |-> entries[i], list |-> selected], <<>>)
    /\ UNCHANGED <<dbVars, displayVars, importVars, guiVars>>

\* selected[i].unselect(selectedList)
EntryUnselect(i) ==
    /\ i \in 1..Len(selected)
    /\ selected' = UnselectFrom(selected[i], selected)
    /\ Ran("unselect", <<>>, <<>>)
    /\ UNCHANGED <<dbVars, displayVars, importVars, guiVars>>

\* displayList.selectAll(selectedList)
SelectAll ==
    /\ Len(SelectAllInto(entries, selected)) <= MaxSelected
    /\ selected' = SelectAllInto(entries, selected)
    /\ Ran("selectAll", <<>>, <<>>)
    /\ UNCHANGED <<dbVars, displayVars, importVars, guiVars>>

-----------------------------------------------------------------------------
(* Operations of ImportList as actions *)

\* The most rows ever inserted in one run of SpecImport.
MaxImported == 2

\* The latest reading of the clock in SpecImport.
MaxClock == 2

\* Texts put in ImportList.rawText before an import: two good lines with
\* a run of newlines between them and blanks around the parts; a good line and
\* a line without a colon; a line without a definition and a good line; a
\* good line and a line without a term; one line with a second colon; nothing.
ImportTexts ==
    { <<" ", "a", " ", ":", "b", NL, NL, "x", ":", "z", " ">>,
      <<"a", ":", "b", NL, "x">>,
      <<"a", ":", NL, "x", ":", "z">>,
      <<"x", ":", "z", NL, ":", "b">>,
      <<"x", ":", "a", ":", "b">>,
      <<>> }

\* Texts put in ImportList.rawText before a parse: those, and one with the
\* other delimiters and one with a run of newlines and an empty term.
ParseTexts ==
    ImportTexts \cup
    { <<"a", "-", "b", ";", "x", "=", "z", ":", "b">>,
      <<" ", "a", " ", ":", " ", "b", " ", NL, NL, ":", "z", " ">> }

\* Values given to ImportList.massTags.
MassTagChoices == { <<>>, <<" ", "t", " ">> }

\* The patterns the import window offers for entries (line break, semicolon,
\* comma) and the class default.
EntryDelimiters == { "\n", "\n+", ";", "," }

\* The delimiters the import window offers between term and definition.
TermDefinitionDelimiters == { ":", "-", "=" }

\* Time passes: the next datetime.now() reads a later second.
Tick ==
    /\ now < MaxClock
    /\ now' = now + 1
    /\ Ran("tick", <<>>, <<>>)
    /\ UNCHANGED <<db, nextUid, displayVars, selected, importVars, guiVars>>

\* importList.rawText = text
SetRawText(text) ==
    /\ rawText # text
    /\ rawText' = text
    /\ Ran("set", <<>>, <<>>)
    /\ UNCHANGED <<dbVars, displayVars, selected, entryDelimiter,
                   termDefinitionDelimiter, massTags, parsedEntries, guiVars>>

\* importList.massTags = tags
SetMassTags(tags) ==
    /\ massTags # tags
    /\ massTags' = tags
    /\ Ran("set", <<>>, <<>>)
    /\ UNCHANGED <<dbVars, displayVars, selected, rawText, entryDelimiter,
                   termDefinitionDelimiter, parsedEntries, guiVars>>

\* importList.entryDelimiter = pattern
SetEntryDelimiter(pattern) ==
    /\ entryDelimiter # pattern
    /\ entryDelimiter' = pattern
    /\ Ran("set", <<>>, <<>>)
    /\ UNCHANGED <<dbVars, displayVars, selected, rawText, termDefinitionDelimiter,
                   massTags, parsedEntries, guiVars>>

\* importList.termDefinitionDelimiter = delimiter
SetTermDefinitionDelimiter(delimiter) ==
    /\ termDefinitionDelimiter # delimiter
    /\ termDefinitionDelimiter' = delimiter
    /\ Ran("set", <<>>, <<>>)
    /\ UNCHANGED <<dbVars, displayVars, selected, rawText, entryDelimiter,
                   massTags, parsedEntries, guiVars>>

\* importList.parseText(): nothing of the ImportList changes; what each lookup
\* does is the service's choice, kept in the call record.
ParseTextCall ==
    \E outcomes \in [1..Len(ReSplit(entryDelimiter, Strip(rawText))) -> LookupOutcomes] :
        /\ Ran("parseText", [outcomes |-> outcomes],
               ParseText(rawText, entryDelimiter, termDefinitionDelimiter, outcomes))
        /\ UNCHANGED <<dbVars, displayVars, selected, importVars, guiVars>>

\* The patterns parseButtonCommand's entryDelimiterMap holds.
OfferedEntryDelimiters == { "\n+", ";", "," }

\* The loop of importTextbox.insert("end", f"{term}{between}{definition}\n")
\* over the tuples, between being the characters put between the two.
RECURSIVE InsertedLines(_, _)
InsertedLines(trial, between) ==
    IF trial = <<>> THEN <<>>
    ELSE Head(trial)[1] \o between \o Head(trial)[2] \o <<NL>>
         \o InsertedLines(Tail(trial), between)

\* parseButtonCommand of the text import window on a text that is not blank,
\* both delimiters picked: the ImportList takes the text and the delimiters,
\* parseText runs, and the textbox is emptied and refilled, with ": " between
\* term and definition after a successful parse and with the picked delimiter
\* otherwise.  The call record keeps parseText's result and the textbox.
ParseButtonCommand(text, entryDelim, termDefDelim) ==
    /\ Strip(text) # <<>>
    /\ rawText' = Strip(text)
    /\ entryDelimiter' = entryDelim
    /\ termDefinitionDelimiter' = termDefDelim
    /\ \E outcomes \in [1..Len(ReSplit(entryDelim, Strip(text))) -> LookupOutcomes] :
           LET result == ParseText(rawText', entryDelim, termDefDelim, outcomes)
           IN  Ran("parseButtonCommand", [outcomes |-> outcomes],
                   [successfulParse    |-> result.ok,
                    trialParsedEntries |-> result.entries,
                    importTextbox      |->
                        InsertedLines(result.entries,
                                      IF result.ok THEN <<":", " ">>
                                      ELSE <<termDefDelim>>)])
    /\ UNCHANGED <<dbVars, displayVars, selected, massTags, parsedEntries, guiVars>>

\* importList.validateEntries(); arg keeps what was staged before the call.
ValidateEntriesCall ==
    LET result == ValidateEntries(rawText, massTags, now,
                                  Oids(entries) \cup Oids(selected))
    IN  /\ parsedEntries' = result.staged
        /\ Ran("validateEntries", [staged |-> parsedEntries], result.ok)
        /\ UNCHANGED <<dbVars, displayVars, selected, rawText, entryDelimiter,
                       termDefinitionDelimiter, massTags, guiVars>>

\* importList.importAndClear(), every insert succeeding.
ImportAndClear ==
    /\ nextUid + Len(parsedEntries) - 1 <= MaxImported
    /\ db' = InsertAll(db, nextUid, parsedEntries)
    /\ nextUid' = nextUid + Len(parsedEntries)
    /\ rawText' = <<>>
    /\ parsedEntries' = <<>>
    /\ Ran("importAndClear", <<>>, Len(parsedEntries))
    /\ UNCHANGED <<now, displayVars, selected, entryDelimiter,
                   termDefinitionDelimiter, massTags, guiVars>>

\* An importAndClear whose inserts are one transaction, undone as a whole.
CommittedBeforeNone(staged, k) == <<>>

\* The staged entries whose rows are in the table when the k-th entry.add()
\* raises: add() opens its own connection and commits on leaving it, so the
\* first k - 1.
CommittedBefore(staged, k) == SubSeq(staged, 1, k - 1)

\* importList.importAndClear() when the INSERT of the k-th staged entry raises
\* (sqlite3.Error: the file is locked or cannot be written): the loop has no
\* handler, so the call ends there, before rawText and parsedEntries are
\* cleared, and the exception reaches the caller.
ImportAndClearRaises(k) ==
    /\ k \in 1..Len(parsedEntries)
    /\ nextUid + (k - 1) - 1 <= MaxImported
    /\ db' = InsertAll(db, nextUid, CommittedBefore(parsedEntries, k))
    /\ nextUid' = nextUid + Len(CommittedBefore(parsedEntries, k))
    /\ Ran("importAndClearRaised", [failed |-> k], Raised)
    /\ UNCHANGED <<now, displayVars, selected, importVars, guiVars>>

\* The most entries staged at once in SpecImportDB.
MaxStaged == 3

\* expectedColumns of the database import handler: the columns of a table
\* written by SelectedList.exportToDB.
ExpectedColumns == <<"uid", "term", "definition", "tags">>

\* Database files given to importDB: one with two rows, the first with two
\* tags and blanks around them, the second with NULL tags; one with one row
\* whose tag is the mass tag.
ForeignFiles ==
    { ForeignFile(TRUE, ExpectedColumns,
                  << <<1, <<"a">>, <<"b">>, <<" ", "t", " ", " ", "u", " ">>>>,
                     <<2, <<"x">>, <<"z">>, None>> >>),
      ForeignFile(TRUE, ExpectedColumns,
                  << <<7, <<"c">>, <<"d">>, <<"t">>>> >>) }

\* importList.filePath = the path of file; importList.importDB()
ImportDBCall(file) ==
    /\ file.master
    /\ Len(parsedEntries) + Len(file.rows) <= MaxStaged
    /\ parsedEntries' = ImportDB(file.rows, massTags, now,
                                 Oids(entries) \cup Oids(selected), parsedEntries)
    /\ Ran("importDB", [rows |-> file.rows], <<>>)
    /\ UNCHANGED <<dbVars, displayVars, selected, rawText, entryDelimiter,
                   termDefinitionDelimiter, massTags, guiVars>>

-----------------------------------------------------------------------------
(* SpecImport: an ImportList used directly: text and mass tags are set, and *)
(* validateEntries and importAndClear are called in any order while time     *)
(* passes.                                                                   *)

InitImport ==
    DbInit /\ DisplayInit /\ SelectedInit /\ ImportInit /\ GuiInit /\ CallInit

NextImport ==
    \/ Tick
    \/ \E text \in ImportTexts : SetRawText(text)
    \/ \E tags \in MassTagChoices : SetMassTags(tags)
    \/ ValidateEntriesCall
    \/ ImportAndClear
    \/ \E k \in 1..MaxImported : ImportAndClearRaises(k)

SpecImport == InitImport /\ [][NextImport]_vars

-----------------------------------------------------------------------------
(* SpecParse: the text, the two delimiters and the mass tags of an          *)
(* ImportList are set and parseText and validateEntries are called, each     *)
(* lookup ending as the service decides.                                     *)

InitParse ==
    DbInit /\ DisplayInit /\ SelectedInit /\ ImportInit /\ GuiInit /\ CallInit

NextParse ==
    \/ \E text \in ParseTexts : SetRawText(text)
    \/ \E pattern \in EntryDelimiters : SetEntryDelimiter(pattern)
    \/ \E delimiter \in TermDefinitionDelimiters : SetTermDefinitionDelimiter(delimiter)
    \/ \E tags \in MassTagChoices : SetMassTags(tags)
    \/ ParseTextCall
    \/ ValidateEntriesCall

SpecParse == InitParse /\ [][NextParse]_vars

-----------------------------------------------------------------------------
(* SpecParseButton: the text import window's Parse button, pressed on any    *)
(* text with any pair of the offered delimiters.                             *)

InitParseButton ==
    DbInit /\ DisplayInit /\ SelectedInit /\ ImportInit /\ GuiInit /\ CallInit

NextParseButton ==
    \E text \in ParseTexts, entryDelim \in OfferedEntryDelimiters,
       termDefDelim \in TermDefinitionDelimiters :
         ParseButtonCommand(text, entryDelim, termDefDelim)

SpecParseButton == InitParseButton /\ [][NextParseButton]_vars

-----------------------------------------------------------------------------
(* SpecImportDB: an ImportList whose mass tags are set and on which importDB *)
(* and importAndClear are called in any order.                               *)

InitImportDB ==
    DbInit /\ DisplayInit /\ SelectedInit /\ ImportInit /\ GuiInit /\ CallInit

NextImportDB ==
    \/ Tick
    \/ \E tags \in MassTagChoices : SetMassTags(tags)
    \/ \E file \in ForeignFiles : ImportDBCall(file)
    \/ ImportAndClear

SpecImportDB == InitImportDB /\ [][NextImportDB]_vars

-----------------------------------------------------------------------------
(* MainWindow: the handlers of the user's actions *)

\* selectedList.entries.clear() in updateDictionaryUI, left out.
ClearSelectionKeeps(list) == list

\* selectedList.entries.clear() in updateDictionaryUI.
ClearSelection(list) == <<>>

\* The end of updateDictionaryUI with the view asked before the table: "no
\* results" whenever nothing is displayed.
EmptyMessageForViewFirst(rows, built) ==
    IF built = <<>> THEN "noResults"
    ELSE IF Len(rows) = 0 THEN "dictionaryEmpty"
    ELSE "hidden"

\* The end of updateDictionaryUI: after hide_empty_message, SELECT COUNT(*)
\* FROM master; zero rows show "Your dictionary is empty...", otherwise an
\* empty dictionaryList.entries shows "No results match the current filters."
EmptyMessageFor(rows, built) ==
    IF Len(rows) = 0 THEN "dictionaryEmpty"
    ELSE IF built = <<>> THEN "noResults"
    ELSE "hidden"

\* MainWindow.updateDictionaryUI: the selection is cleared, the display list
\* rebuilt and shown (populate: one unset IntVar per entry), the select-all
\* toggle forced off.  side is the entry an open sidebar still refers to.
UpdateDictionaryUI(sel, old, rows, tags, requireAll, keyword, attribute, side) ==
    LET cleared == ClearSelection(sel)
        built   == BuildEntries(old, rows, tags, requireAll, keyword, attribute,
                                Oids(cleared) \cup Oids(side))
    IN  [selected       |-> cleared,
         entries        |-> built,
         selectedVars   |-> [i \in 1..Len(built) |-> 0],
         selectAllState |-> FALSE,
         emptyMessage   |-> EmptyMessageFor(rows, built)]

\* The five variables updateDictionaryUI writes take the values of u.
Shows(u) ==
    /\ selected' = u.selected
    /\ entries' = u.entries
    /\ selectedVars' = u.selectedVars
    /\ selectAllState' = u.selectAllState
    /\ emptyMessage' = u.emptyMessage

\* The tail of the two delete handlers without the reset: updateUI once.
AfterDeleteKeepsFilter(rows, side) ==
    /\ UNCHANGED <<filterTags, requireAllTags, searchKeyword>>
    /\ Shows(UpdateDictionaryUI(<<>>, entries, rows, filterTags, requireAllTags,
                                searchKeyword, sortAttribute, side))

\* The tail of the two delete handlers, rows being the table after the
\* DELETE: updateUI, and when nothing is shown the filter and the search are
\* reset and updateUI runs again.
AfterDelete(rows, side) ==
    LET first == UpdateDictionaryUI(<<>>, entries, rows, filterTags, requireAllTags,
                                    searchKeyword, sortAttribute, side)
    IN  IF first.entries = <<>>
        THEN /\ filterTags' = <<>>
             /\ requireAllTags' = FALSE
             /\ searchKeyword' = <<>>
             /\ Shows(UpdateDictionaryUI(first.selected, first.entries, rows, <<>>,
                                         FALSE, <<>>, sortAttribute, side))
        ELSE /\ UNCHANGED <<filterTags, requireAllTags, searchKeyword>>
             /\ Shows(first)

\* MainWindow.updateSelectAllButtonState: the toggle shows "Unselect all"
\* exactly when as many entries are selected as are displayed.
UpdateSelectAllButtonState(sel, shown) == Len(sel) = Len(shown)

\* DictionaryList.unselect_all: entry.unselect for each displayed entry.
RECURSIVE UnselectAllFrom(_, _)
UnselectAllFrom(list, from) ==
    IF list = <<>> THEN from
    ELSE UnselectAllFrom(Tail(list), UnselectFrom(Head(list), from))

\* sep.join(pieces)
RECURSIVE Join(_, _)
Join(pieces, sep) ==
    IF pieces = <<>> THEN <<>>
    ELSE IF Len(pieces) = 1 THEN Head(pieces)
    ELSE Head(pieces) \o <<sep>> \o Join(Tail(pieces), sep)

\* ' '.join(tag.strip() for tag in newTags.split())
NormalisedTags(s) == Join(NonEmpty(SplitWhitespace(s)), " ")

\* An UPDATE without its WHERE clause: every row is rewritten.
EditRowEveryRow(rows, uid, term, definition, tags) ==
    [i \in 1..Len(rows) |->
        Row(rows[i].uid, term, definition, Strip(tags), rows[i].createdAt)]

\* Entry.edit: UPDATE master SET term, definition, tags.strip() WHERE uid = ?
EditRow(rows, uid, term, definition, tags) ==
    [i \in 1..Len(rows) |->
        IF rows[i].uid = uid
        THEN Row(uid, term, definition, Strip(tags), rows[i].createdAt)
        ELSE rows[i]]

\* A batch delete that stops after the row of the first selected entry.
DeleteRowsFirstOnly(rows, list) ==
    IF list = <<>> THEN rows ELSE DeleteRow(rows, Head(list).uid)

\* executemany("DELETE FROM master WHERE uid = ?") over the selected entries;
\* also the loop of SelectedList.deleteAll, entry.delete() for each of them.
RECURSIVE DeleteRows(_, _)
DeleteRows(rows, list) ==
    IF list = <<>> THEN rows
    ELSE DeleteRows(DeleteRow(rows, Head(list).uid), Tail(list))

\* What is typed in the add window: (term, definition, tags).
AppCatalogue == { <<<<"a">>, <<"B">>, <<"T">>>> }

\* What the fields of the sidebar hold when Done is pressed.
AppEdits == { <<<<"a">>, <<"B", " ">>, <<" ", "T", " ">>>> }

\* What is typed for the mass tags of an import.
AppMassTags == { <<" ", "t", " ">> }

\* What is typed in the search bar.
AppKeywords == { <<>>, <<"a">> }

\* What the filter bar passes: "No tags", or one tag selected.
AppFilters == { None, <<"T">> }

\* The attributes picked in the sort bar in Spec.
AppSortAttributes == { "dateDescending", "alphabeticalAscending" }

\* What is pasted in the import window: a good line, and a good line
\* followed by a line without a colon.
AppImportTexts ==
    { <<"x", ":", "z", NL>>,
      <<"a", ":", "b", NL, "x">> }

\* MainWindow.searchBarCommand(keyword)
SearchBarCommand(keyword) ==
    /\ keyword # searchKeyword
    /\ searchKeyword' = keyword
    /\ Shows(UpdateDictionaryUI(selected, entries, db, filterTags, requireAllTags,
                                keyword, sortAttribute, sidebarEntry))
    /\ Ran("userAction", <<>>, "rebuilt")
    /\ UNCHANGED <<dbVars, filterTags, requireAllTags, sortAttribute, importVars,
                   sidebarEntry>>

\* MainWindow.filterBarCommand(selectedTags), tags being the selected tags
\* joined and requireAll the state of the filter bar's switch.
FilterBarCommand(tags, requireAll) ==
    /\ \/ tags = None
       \/ tags # filterTags
       \/ requireAll # requireAllTags
    /\ filterTags' = tags
    /\ requireAllTags' = (IF tags = None THEN FALSE ELSE requireAll)
    /\ Shows(UpdateDictionaryUI(selected, entries, db, filterTags', requireAllTags',
                                searchKeyword, sortAttribute, sidebarEntry))
    /\ Ran("userAction", <<>>, "rebuilt")
    /\ UNCHANGED <<dbVars, searchKeyword, sortAttribute, importVars, sidebarEntry>>

\* MainWindow.sortBarCommand(selectedAttribute)
SortBarCommand(attribute) ==
    /\ attribute # sortAttribute
    /\ sortAttribute' = attribute
    /\ Shows(UpdateDictionaryUI(selected, entries, db, filterTags, requireAllTags,
                                searchKeyword, attribute, sidebarEntry))
    /\ Ran("userAction", <<>>, "rebuilt")
    /\ UNCHANGED <<dbVars, filterTags, requireAllTags, searchKeyword, importVars,
                   sidebarEntry>>

\* A click on the checkbox of row i: toggle_checkbox flips the row's IntVar,
\* on_checkbox_toggle selects or unselects the row's entry, and
\* onEntrySelectionChanged brings the select-all toggle up to date.
OnCheckboxToggle(i) ==
    /\ i \in 1..Len(entries)
    /\ selectedVars' = [selectedVars EXCEPT ![i] = IF selectedVars[i] = 1 THEN 0 ELSE 1]
    /\ selected' = IF selectedVars'[i] = 1 THEN SelectInto(entries[i], selected)
                   ELSE UnselectFrom(entries[i], selected)
    /\ selectAllState' = UpdateSelectAllButtonState(selected', entries)
    /\ Ran("userAction", <<>>, "kept")
    /\ UNCHANGED <<dbVars, displayVars, importVars, emptyMessage, sidebarEntry>>

\* A click on the select-all toggle: _toggle flips its state and calls
\* MainWindow.selectAllToggleCommand (select_all or unselect_all of the
\* DictionaryList, then updateSelectAllButtonState).
SelectAllToggleCommand ==
    /\ selected' = IF ~selectAllState THEN SelectAllInto(entries, selected)
                   ELSE UnselectAllFrom(entries, selected)
    /\ selectedVars' = [i \in 1..Len(entries) |-> IF ~selectAllState THEN 1 ELSE 0]
    /\ selectAllState' = UpdateSelectAllButtonState(selected', entries)
    /\ Ran("userAction", <<>>, "kept")
    /\ UNCHANGED <<dbVars, displayVars, importVars, emptyMessage, sidebarEntry>>

\* addButtonCommand with a term and a definition filled in.
AddButtonCommand(term, definition, tags) ==
    /\ nextUid <= MaxRows
    /\ Strip(term) # <<>> /\ Strip(definition) # <<>>
    /\ db' = InsertRow(db, nextUid,
                       Entry(1, NoUid, Strip(term), Strip(definition), Strip(tags), now))
    /\ nextUid' = nextUid + 1
    /\ now' = now + 1
    /\ Shows(UpdateDictionaryUI(selected, entries, db', filterTags, requireAllTags,
                                searchKeyword, sortAttribute, sidebarEntry))
    /\ Ran("userAction", <<>>, "rebuilt")
    /\ UNCHANGED <<filterTags, requireAllTags, searchKeyword, sortAttribute,
                   importVars, sidebarEntry>>

\* MainWindow.handleRowClick(row_num, entry): the sidebar is made for entry.
HandleRowClick(i) ==
    /\ i \in 1..Len(entries)
    /\ sidebarEntry # <<entries[i]>>
    /\ sidebarEntry' = <<entries[i]>>
    /\ Ran("userAction", <<>>, "kept")
    /\ UNCHANGED <<dbVars, displayVars, selected, importVars, selectedVars,
                   selectAllState, emptyMessage>>

\* sidebarCancelButtonCommand
SidebarCancelButtonCommand ==
    /\ sidebarEntry # <<>>
    /\ sidebarEntry' = <<>>
    /\ Ran("userAction", <<>>, "kept")
    /\ UNCHANGED <<dbVars, displayVars, selected, importVars, selectedVars,
                   selectAllState, emptyMessage>>

\* sidebarDoneButtonCommand with a term and a definition left in the fields:
\* nothing but the sidebar goes when nothing was changed; otherwise
\* entry.edit(...) and updateUI.
SidebarDoneButtonCommand(term, definition, tags) ==
    /\ sidebarEntry # <<>>
    /\ LET entry         == sidebarEntry[1]
           newTerm       == Strip(term)
           newDefinition == Strip(definition)
           newTags       == NormalisedTags(tags)
       IN  /\ newTerm # <<>> /\ newDefinition # <<>>
           /\ IF entry.tags = newTags /\ entry.term = newTerm
                 /\ entry.definition = newDefinition
              THEN /\ Ran("userAction", <<>>, "kept")
                   /\ UNCHANGED <<db, displayVars, selected, selectedVars, selectAllState,
                                  emptyMessage>>
              ELSE /\ db' = EditRow(db, entry.uid, newTerm, newDefinition, newTags)
                   /\ Shows(UpdateDictionaryUI(selected, entries, db', filterTags,
                                               requireAllTags, searchKeyword,
                                               sortAttribute, <<>>))
                   /\ Ran("userAction", <<>>, "rebuilt")
                   /\ UNCHANGED <<filterTags, requireAllTags, searchKeyword, sortAttribute>>
    /\ sidebarEntry' = <<>>
    /\ UNCHANGED <<nextUid, now, importVars>>

\* sidebarDeleteButtonCommand
SidebarDeleteButtonCommand ==
    /\ sidebarEntry # <<>>
    /\ db' = DeleteRow(db, sidebarEntry[1].uid)
    /\ AfterDelete(db', <<>>)
    /\ sidebarEntry' = <<>>
    /\ Ran("userAction", [tags |-> filterTags, keyword |-> searchKeyword], "rebuilt")
    /\ UNCHANGED <<nextUid, now, sortAttribute, importVars>>

\* MainWindow.deleteSelectedButtonCommand, confirmed in the dialog.
DeleteSelectedButtonCommand ==
    /\ selected # <<>>
    /\ db' = DeleteRows(db, selected)
    /\ AfterDelete(db', sidebarEntry)
    /\ Ran("userAction", [tags |-> filterTags, keyword |-> searchKeyword], "rebuilt")
    /\ UNCHANGED <<nextUid, now, sortAttribute, importVars, sidebarEntry>>

\* An import handler that goes on to importAndClear whatever validateEntries
\* returned.
StopsImportNever(isValid) == FALSE

\* `if not isValid: showerror(...); return` of the text import handler.
StopsImport(isValid) == ~isValid

\* importButtonCommand of the text import window on a text that is not blank:
\* the fields are copied into the ImportList and validated; an invalid text
\* ends the handler, a valid one is imported and updateUI runs.  The call
\* record keeps the text the handler read from the textbox.
ImportButtonCommand(text, tags) ==
    /\ Strip(text) # <<>>
    /\ massTags' = Strip(tags)
    /\ LET result == ValidateEntries(Strip(text), massTags', now,
                                     Oids(entries) \cup Oids(selected)
                                         \cup Oids(sidebarEntry))
       IN  IF StopsImport(result.ok)
           THEN /\ rawText' = Strip(text)
                /\ parsedEntries' = result.staged
                /\ Ran("userAction", [text |-> Strip(text)], "kept")
                /\ UNCHANGED <<dbVars, displayVars, selected, selectedVars,
                               selectAllState, emptyMessage>>
           ELSE /\ nextUid + Len(result.staged) - 1 <= MaxRows
                /\ db' = InsertAll(db, nextUid, result.staged)
                /\ nextUid' = nextUid + Len(result.staged)
                /\ now' = now + 1
                /\ rawText' = <<>>
                /\ parsedEntries' = <<>>
                /\ Shows(UpdateDictionaryUI(selected, entries, db', filterTags,
                                            requireAllTags, searchKeyword,
                                            sortAttribute, sidebarEntry))
                /\ Ran("userAction", [text |-> Strip(text)], "rebuilt")
                /\ UNCHANGED <<filterTags, requireAllTags, searchKeyword, sortAttribute>>
    /\ UNCHANGED <<entryDelimiter, termDefinitionDelimiter, sidebarEntry>>

\* Database files chosen in the database import window: one without a master
\* table; one with the columns of the application's own table (createdAt
\* besides the four) and a row; one with the expected columns and no row; one
\* with the expected columns and a row whose term is the empty string.
AppForeignFiles ==
    { ForeignFile(FALSE, <<>>, <<>>),
      ForeignFile(TRUE, <<"uid", "term", "definition", "tags", "createdAt">>,
                  << <<1, <<"q">>, <<"r">>, <<>>, 1>> >>),
      ForeignFile(TRUE, ExpectedColumns, <<>>),
      ForeignFile(TRUE, ExpectedColumns,
                  << <<1, <<>>, <<"d">>, <<"U">>>> >>) }

\* A database import handler that does not look at the column names.
RefusesFileIgnoresColumns(file) ==
    \/ ~file.master
    \/ Len(file.rows) = 0

\* The three checks of the database import handler, each ending it with an
\* error box: no table named master, PRAGMA table_info(master) not the expected
\* column names, COUNT(*) zero.
RefusesFile(file) ==
    \/ ~file.master
    \/ file.columns # ExpectedColumns
    \/ Len(file.rows) = 0

\* importButtonCommand of the database import window on a chosen file: a
\* refused file ends the handler; otherwise the path and the stripped mass tags
\* are copied into the window's ImportList, importDB and importAndClear run and
\* updateUI follows.  The window's ImportList is held in the variables of the
\* text window's (the windows are modal, one is open at a time).  The call
\* record keeps the file.
DbImportButtonCommand(file, tags) ==
    /\ IF RefusesFile(file)
       THEN /\ Ran("userAction", [file |-> file], "kept")
            /\ UNCHANGED <<dbVars, displayVars, selected, rawText, massTags,
                           parsedEntries, selectedVars, selectAllState,
                           emptyMessage>>
       ELSE LET staged == ImportDB(file.rows, Strip(tags), now,
                                   Oids(entries) \cup Oids(selected)
                                       \cup Oids(sidebarEntry),
                                   parsedEntries)
            IN  /\ nextUid + Len(staged) - 1 <= 2 * MaxRows
                /\ massTags' = Strip(tags)
                /\ db' = InsertAll(db, nextUid, staged)
                /\ nextUid' = nextUid + Len(staged)
                /\ now' = now + 1
                /\ rawText' = <<>>
                /\ parsedEntries' = <<>>
                /\ Shows(UpdateDictionaryUI(selected, entries, db', filterTags,
                                            requireAllTags, searchKeyword,
                                            sortAttribute, sidebarEntry))
                /\ Ran("userAction", [file |-> file], "rebuilt")
                /\ UNCHANGED <<filterTags, requireAllTags, searchKeyword, sortAttribute>>
    /\ UNCHANGED <<entryDelimiter, termDefinitionDelimiter, sidebarEntry>>

-----------------------------------------------------------------------------
(* Spec: the application.  App.__init__ has set up an empty table, built   *)
(* the display list and made the main window; the user then acts.           *)

Init ==
    DbInit /\ DisplayInit /\ SelectedInit /\ ImportInit /\ GuiInit /\ CallInit

Next ==
    \/ \E keyword \in AppKeywords : SearchBarCommand(keyword)
    \/ \E tags \in AppFilters, requireAll \in BOOLEAN : FilterBarCommand(tags, requireAll)
    \/ \E attribute \in AppSortAttributes : SortBarCommand(attribute)
    \/ \E i \in 1..MaxRows : OnCheckboxToggle(i)
    \/ SelectAllToggleCommand
    \/ \E k \in AppCatalogue : AddButtonCommand(k[1], k[2], k[3])
    \/ \E i \in 1..MaxRows : HandleRowClick(i)
    \/ SidebarCancelButtonCommand
    \/ \E k \in AppEdits : SidebarDoneButtonCommand(k[1], k[2], k[3])
    \/ SidebarDeleteButtonCommand
    \/ DeleteSelectedButtonCommand
    \/ \E text \in AppImportTexts, tags \in AppMassTags : ImportButtonCommand(text, tags)

Spec == Init /\ [][Next]_vars

-----------------------------------------------------------------------------
(* SpecWrite: the application, seen through the actions that write records: *)
(* Add, Edit (a row is clicked and the sidebar's Done or Cancel pressed),    *)
(* Bulk Add (the text import) and Import (the database import).              *)

InitWrite == Init

NextWrite ==
    \/ \E k \in AppCatalogue : AddButtonCommand(k[1], k[2], k[3])
    \/ \E i \in 1..MaxRows : HandleRowClick(i)
    \/ SidebarCancelButtonCommand
    \/ \E k \in AppEdits : SidebarDoneButtonCommand(k[1], k[2], k[3])
    \/ \E text \in AppImportTexts, tags \in AppMassTags : ImportButtonCommand(text, tags)
    \/ \E file \in AppForeignFiles, tags \in AppMassTags : DbImportButtonCommand(file, tags)

SpecWrite == InitWrite /\ [][NextWrite]_vars

-----------------------------------------------------------------------------
(* SpecExport: entries are added, sorted and selected in the main window    *)
(* and exported with SelectedList.exportToDB, and the file just written is   *)
(* chosen in the database import window, the mass tags left empty.           *)

\* An exportToDB that writes the entries in the order of the selection.
ExportToDBUnsorted(list, includeTags) ==
    ForeignFile(TRUE, <<"uid", "term", "definition", "tags">>,
                [k \in 1..Len(list) |->
                    <<k, list[k].term, list[k].definition,
                      IF includeTags THEN Strip(list[k].tags) ELSE <<>>>>])

\* SelectedList.exportToDB: the file afterwards.  master is dropped and
\* created anew with (uid AUTOINCREMENT, term, definition, tags), and one row
\* is inserted per entry of a dateAscending-sorted copy of the list, the
\* tags stripped or, without includeTags, "".
ExportToDB(list, includeTags) ==
    LET entriesToExport == QuickSort(list, "dateAscending")
    IN  ForeignFile(TRUE, <<"uid", "term", "definition", "tags">>,
                    [k \in 1..Len(entriesToExport) |->
                        <<k, entriesToExport[k].term, entriesToExport[k].definition,
                          IF includeTags THEN Strip(entriesToExport[k].tags)
                          ELSE <<>>>>])

\* selectedList.exportToDB(filePath, includeTags); the call record keeps the
\* list as it was given and the file as it was written.
ExportToDBCall(includeTags) ==
    /\ Ran("exportToDB", [entries |-> selected, includeTags |-> includeTags],
           ExportToDB(selected, includeTags))
    /\ UNCHANGED <<dbVars, displayVars, selected, importVars, guiVars>>

\* The database import window's Import pressed on the file the last export
\* wrote, no mass tags typed.
ImportExportedFile ==
    /\ op = "exportToDB"
    /\ DbImportButtonCommand(ret, <<>>)

\* What is typed for a new entry in SpecExport.
ExportCatalogue == { <<<<"b">>, <<"x">>, <<>>>>, <<<<"a">>, <<"B">>, <<"T", " ">>>> }

InitExport == Init

NextExport ==
    \/ \E k \in ExportCatalogue : AddButtonCommand(k[1], k[2], k[3])
    \/ \E attribute \in AppSortAttributes : SortBarCommand(attribute)
    \/ SelectAllToggleCommand
    \/ \E includeTags \in BOOLEAN : ExportToDBCall(includeTags)
    \/ ImportExportedFile

SpecExport == InitExport /\ [][NextExport]_vars

-----------------------------------------------------------------------------
(* SpecSelect: a DisplayList and a SelectedList used directly: rows are    *)
(* added, the list is rebuilt, and entries are selected and unselected.     *)

\* SelectedList.unselectAll(selectedList) with the list itself as argument:
\* the for loop walks self.entries by position while entry.unselect removes
\* from the same list, so after each removal the next position is one entry
\* further on.  i is the position the iterator is at.
RECURSIVE UnselectAllSelf(_, _)
UnselectAllSelf(list, i) ==
    IF i > Len(list) THEN list
    ELSE UnselectAllSelf(UnselectFrom(list[i], list), i + 1)

\* selectedList.unselectAll(selectedList)
UnselectAll ==
    /\ selected' = UnselectAllSelf(selected, 1)
    /\ Ran("unselectAll", <<>>, <<>>)
    /\ UNCHANGED <<dbVars, displayVars, importVars, guiVars>>

\* selectedList.deleteAll(); the call record keeps the uids of the selection.
DeleteAll ==
    /\ db' = DeleteRows(db, selected)
    /\ selected' = ClearSelection(selected)
    /\ Ran("deleteAll", [uids |-> [i \in 1..Len(selected) |-> selected[i].uid]], <<>>)
    /\ UNCHANGED <<nextUid, now, displayVars, importVars, guiVars>>

InitSelect ==
    DbInit /\ DisplayInit /\ SelectedInit /\ ImportInit /\ GuiInit /\ CallInit

\* What is typed for a new entry in SpecSelect.
SelectCatalogue == { <<<<"b">>, <<"x">>, <<>>>>, <<<<"a">>, <<"B">>, <<"T">>>> }

NextSelect ==
    \/ \E k \in SelectCatalogue : EntryAdd(k[1], k[2], k[3])
    \/ Build
    \/ \E i \in 1..MaxRows : EntrySelect(i)
    \/ \E i \in 1..MaxSelected : EntryUnselect(i)
    \/ SelectAll
    \/ UnselectAll
    \/ DeleteAll

SpecSelect == InitSelect /\ [][NextSelect]_vars

-----------------------------------------------------------------------------
(* SpecEdit: entries of a DisplayList are edited and deleted directly while *)
(* rows are added and the list is rebuilt.                                   *)

\* What Entry.edit is given: (newTerm, newDefinition, newTags).
EditInputs ==
    { <<<<"c">>, <<"d">>, <<" ", "t", " ">>>>,
      <<<<"A">>, <<"x">>, <<>>>> }

\* Entry.edit on the object e of a list: self.term, self.definition and
\* self.tags (untrimmed) are assigned; every reference sees the change.
Edited(list, e, term, definition, tags) ==
    [i \in 1..Len(list) |->
        IF list[i].oid = e.oid
        THEN Entry(e.oid, e.uid, term, definition, tags, e.createdAt)
        ELSE list[i]]

\* entries[i].edit(newTerm, newDefinition, newTags)
EntryEdit(i, term, definition, tags) ==
    /\ i \in 1..Len(entries)
    /\ entries' = Edited(entries, entries[i], term, definition, tags)
    /\ selected' = Edited(selected, entries[i], term, definition, tags)
    /\ db' = EditRow(db, entries[i].uid, term, definition, tags)
    /\ Ran("edit", [uid |-> entries[i].uid, term |-> term,
                    definition |-> definition, tags |-> tags], <<>>)
    /\ UNCHANGED <<nextUid, now, filterTags, requireAllTags, searchKeyword,
                   sortAttribute, importVars, guiVars>>

InitEdit ==
    DbInit /\ DisplayInit /\ SelectedInit /\ ImportInit /\ GuiInit /\ CallInit

NextEdit ==
    \/ \E k \in SelectCatalogue : EntryAdd(k[1], k[2], k[3])
    \/ Build
    \/ \E i \in 1..MaxRows, k \in EditInputs : EntryEdit(i, k[1], k[2], k[3])
    \/ \E i \in 1..MaxRows : EntryDelete(i)

SpecEdit == InitEdit /\ [][NextEdit]_vars

-----------------------------------------------------------------------------
(* SpecAdd: a caller builds an Entry, adds it and keeps the object, then     *)
(* edits or deletes through it, while the DisplayList is rebuilt and its     *)
(* entries are edited and deleted.  The kept object is held in the call      *)
(* record (arg.self) until another operation takes the record.               *)

\* An add() that stores the new row's id (cursor.lastrowid) in self.uid.
AddedTakesRowid(e, uid) == [e EXCEPT !.uid = uid]

\* The Entry object after its add(), uid being the id the row was given:
\* add() only runs the INSERT and assigns nothing to self.
Added(e, uid) == e

\* e = Entry(term, definition, tags); e.add(), e kept.
EntryAddKept(term, definition, tags) ==
    /\ nextUid <= MaxRows
    /\ now' = now + 1
    /\ LET e == Entry(FreshOid(Oids(entries) \cup Oids(selected), 1), NoUid, term,
                      definition, tags, now)
       IN  /\ db' = InsertRow(db, nextUid, e)
           /\ Ran("add", [self |-> Added(e, nextUid)], <<>>)
    /\ nextUid' = nextUid + 1
    /\ UNCHANGED <<entries, filterTags, requireAllTags, searchKeyword, sortAttribute,
                   selected, importVars, guiVars>>

\* e.edit(newTerm, newDefinition, newTags) on the kept object.
KeptEdit(term, definition, tags) ==
    /\ DOMAIN arg = {"self"}
    /\ db' = EditRow(db, arg.self.uid, term, definition, tags)
    /\ Ran("edit", [self |-> Entry(arg.self.oid, arg.self.uid, term, definition, tags,
                                   arg.self.createdAt)], <<>>)
    /\ UNCHANGED <<nextUid, now, displayVars, selected, importVars, guiVars>>

\* e.delete() on the kept object.
KeptDelete ==
    /\ DOMAIN arg = {"self"}
    /\ db' = DeleteRow(db, arg.self.uid)
    /\ Ran("delete", arg, <<>>)
    /\ UNCHANGED <<nextUid, now, displayVars, selected, importVars, guiVars>>

InitAdd ==
    DbInit /\ DisplayInit /\ SelectedInit /\ ImportInit /\ GuiInit /\ CallInit

NextAdd ==
    \/ \E k \in SelectCatalogue : EntryAddKept(k[1], k[2], k[3])
    \/ \E k \in EditInputs : KeptEdit(k[1], k[2], k[3])
    \/ KeptDelete
    \/ Build
    \/ \E i \in 1..MaxRows, k \in EditInputs : EntryEdit(i, k[1], k[2], k[3])
    \/ \E i \in 1..MaxRows : EntryDelete(i)

SpecAdd == InitAdd /\ [][NextAdd]_vars

-----------------------------------------------------------------------------
(* SpecView: a DisplayList over a changing table.  Rows are added and       *)
(* deleted, the four view parameters are set, and filter, search, sort and  *)
(* build are called in any order.                                           *)

InitView ==
    DbInit /\ DisplayInit /\ SelectedInit /\ ImportInit /\ GuiInit /\ CallInit

NextView ==
    \/ \E k \in Catalogue : EntryAdd(k[1], k[2], k[3])
    \/ \E i \in 1..MaxRows : EntryDelete(i)
    \/ \E tags \in FilterChoices : SetFilterTags(tags)
    \/ SetRequireAllTags
    \/ \E keyword \in KeywordChoices : SetSearchKeyword(keyword)
    \/ \E attribute \in SortAttributes : SetSortAttribute(attribute)
    \/ Filter
    \/ Search
    \/ Sort
    \/ Build

SpecView == InitView /\ [][NextView]_vars

-----------------------------------------------------------------------------
(* SpecSort: Helper.quickSort as a function, on every list of at most        *)
(* MaxSortLen entries of SortPool under each attribute.                      *)

MaxSortLen == 3

\* Entries with ties on both keys: "B"/"b" and "a"/"A" tie case-insensitively;
\* s3 and s5 are two objects of the same row (same createdAt and uid), as two
\* builds produce; createdAt order and uid order disagree (s1 against s2).
SortPool ==
    { Entry(1, 1, <<"b">>,      <<"x">>, <<>>, 2),
      Entry(2, 2, <<"B">>,      <<"x">>, <<>>, 1),
      Entry(3, 3, <<"a">>,      <<"x">>, <<>>, 1),
      Entry(4, 4, <<"A", "b">>, <<"x">>, <<>>, 2),
      Entry(5, 3, <<"A">>,      <<"x">>, <<>>, 1) }

SortInputs == UNION { [1..n -> SortPool] : n \in 0..MaxSortLen }

InitSort ==
    /\ DbInit /\ DisplayInit /\ SelectedInit /\ ImportInit /\ GuiInit
    /\ op = "input"
    /\ arg \in [list : SortInputs, attribute : SortAttributes]
    /\ ret = <<>>

\* A call Helper.quickSort(arg.list, arg.attribute); entries that are lists of
\* Entry objects pass the validation at the top of the function.
QuickSortCall ==
    /\ op = "input"
    /\ op' = "quickSort"
    /\ ret' = QuickSort(arg.list, arg.attribute)
    /\ UNCHANGED <<arg, db, nextUid, now, entries, filterTags, requireAllTags,
                   searchKeyword, sortAttribute, selected, rawText, entryDelimiter,
                   termDefinitionDelimiter, massTags, parsedEntries, selectedVars,
                   selectAllState, emptyMessage, sidebarEntry>>

NextSort == QuickSortCall

SpecSort == InitSort /\ [][NextSort]_vars

-----------------------------------------------------------------------------
(* SpecSortAny: Helper.quickSort called with any attribute string, one that *)
(* is none of the four names included.                                       *)

\* Attribute strings given to quickSort: the four names and another string.
AnyAttributes == SortAttributes \cup {"dateCreated"}

InitSortAny ==
    /\ DbInit /\ DisplayInit /\ SelectedInit /\ ImportInit /\ GuiInit
    /\ op = "input"
    /\ arg \in [list : SortInputs, attribute : AnyAttributes]
    /\ ret = <<>>

NextSortAny == QuickSortCall

SpecSortAny == InitSortAny /\ [][NextSortAny]_vars

\* The key the claim names, and its strict order.
SortKeyLess(a, b, attribute) ==
    IF attribute \in {"alphabeticalAscending", "alphabeticalDescending"}
    THEN StrLess(Lower(a.term), Lower(b.term))
    ELSE a.createdAt < b.createdAt \/ (a.createdAt = b.createdAt /\ a.uid < b.uid)

Descending(attribute) == attribute \in {"alphabeticalDescending", "dateDescending"}

\* x goes before y in the named direction.
Before(x, y, attribute) ==
    IF Descending(attribute) THEN SortKeyLess(y, x, attribute)
    ELSE SortKeyLess(x, y, attribute)

\* Stable insertion: x is placed in front of the first element it goes before,
\* so after every element of equal key already placed.
RECURSIVE StableInsert(_, _, _)
StableInsert(x, sortedList, attribute) ==
    IF sortedList = <<>> THEN <<x>>
    ELSE IF Before(x, Head(sortedList), attribute) THEN <<x>> \o sortedList
    ELSE <<Head(sortedList)>> \o StableInsert(x, Tail(sortedList), attribute)

\* The standard stable key-based sort: insert the elements in input order.
RECURSIVE StableSortFrom(_, _, _)
StableSortFrom(list, acc, attribute) ==
    IF list = <<>> THEN acc
    ELSE StableSortFrom(Tail(list), StableInsert(Head(list), acc, attribute), attribute)

StableSort(list, attribute) == StableSortFrom(list, <<>>, attribute)

\* C3: for each of the four attributes and every input list, Helper.quickSort
\* returns the sequence a stable sort on the named key returns (lowercased term,
\* or (createdAt, uid); ascending or descending; equal keys in input order).
C3_QuickSortIsStableSort ==
    op = "quickSort" => ret = StableSort(arg.list, arg.attribute)

\* C3 witness: a descending sort of three entries that had to be reordered and
\* in which two entries of equal key keep their input order.
C3_Witness ==
    /\ op = "quickSort"
    /\ arg.attribute = "alphabeticalDescending"
    /\ Len(arg.list) = 3
    /\ ret # arg.list
    /\ \E i, j \in 1..3 :
          /\ i < j
          /\ arg.list[i].oid # arg.list[j].oid
          /\ Lower(arg.list[i].term) = Lower(arg.list[j].term)

-----------------------------------------------------------------------------
(* What the view is meant to show, stated on the rows themselves *)

\* The row an entry was read from.
AsRow(e) == Row(e.uid, e.term, e.definition, e.tags, e.createdAt)

RowsOf(list) == {AsRow(list[i]) : i \in 1..Len(list)}

UidsOf(list) == {list[i].uid : i \in 1..Len(list)}

\* The whitespace-separated tags of a tag string, lowercased: the maximal
\* pieces without whitespace.
TagSet(s) ==
    { Lower(SubSeq(s, i, j)) : <<i, j>> \in
        { p \in (1..Len(s)) \X (1..Len(s)) :
            /\ p[1] <= p[2]
            /\ \A k \in p[1]..p[2] : ~IsSpace(s[k])
            /\ (p[1] = 1 \/ IsSpace(s[p[1] - 1]))
            /\ (p[2] = Len(s) \/ IsSpace(s[p[2] + 1])) } }

\* The tag filter on one record, tags a string.
PassesTagString(r, tags, requireAll) ==
    \/ TagSet(tags) = {}
    \/ requireAll /\ TagSet(tags) \subseteq TagSet(r.tags)
    \/ ~requireAll /\ TagSet(tags) \cap TagSet(r.tags) # {}

\* The tag string is empty once trimmed: it holds nothing but whitespace.
HasNoTags(r) == \A k \in 1..Len(r.tags) : IsSpace(r.tags[k])

PassesTagFilter(r, tags, requireAll) ==
    IF tags = None THEN HasNoTags(r) ELSE PassesTagString(r, tags, requireAll)

\* keyword occurs in text, letter case ignored.
OccursIn(keyword, text) ==
    \E offset \in 0..Len(text) :
        /\ offset + Len(keyword) <= Len(text)
        /\ \A k \in 1..Len(keyword) : LowerChar(text[offset + k]) = LowerChar(keyword[k])

HasKeyword(r, keyword) ==
    OccursIn(keyword, r.term) \/ OccursIn(keyword, r.definition) \/ OccursIn(keyword, r.tags)

\* list is arranged by attribute: no entry stands after one it goes before.
Arranged(list, attribute) ==
    \A i, j \in 1..Len(list) : i < j => ~Before(list[j], list[i], attribute)

-----------------------------------------------------------------------------
(* Claims on the view (SpecView) *)

\* C1: after build(), whatever entries held before, entries is exactly the
\* persisted records that pass the current tag filter and contain the current
\* search keyword, each once, arranged by the current sortAttribute.
C1_BuildReflectsStore ==
    op = "build" =>
        LET want == { r \in Range(db) :
                        /\ PassesTagFilter(r, filterTags, requireAllTags)
                        /\ HasKeyword(r, searchKeyword) }
        IN  /\ RowsOf(entries) = want
            /\ Len(entries) = Cardinality(want)
            /\ Arranged(entries, sortAttribute)

\* C1 witness: a build under a tag filter and a keyword that kept one of two
\* persisted records.
C1_Witness ==
    /\ op = "build"
    /\ Len(db) = 2
    /\ filterTags = <<" ", "T", " ", "u", " ">>
    /\ searchKeyword = <<"A">>
    /\ Len(entries) = 1

\* C2: filter() with filterTags a string keeps every record when filterTags
\* holds no tag, and otherwise exactly the records having, case-insensitively,
\* every wanted tag (requireAllTags) or at least one (not requireAllTags); so
\* what requireAllTags = true keeps is among what requireAllTags = false keeps.
C2_FilterByTags ==
    (op = "filter" /\ filterTags # None) =>
        LET want == { r \in Range(db) : PassesTagString(r, filterTags, requireAllTags) }
        IN  /\ RowsOf(entries) = want
            /\ Len(entries) = Cardinality(want)
            /\ UidsOf(FilterEntries(db, filterTags, TRUE, {}))
                 \subseteq UidsOf(FilterEntries(db, filterTags, FALSE, {}))

\* C2 witness: with two wanted tags, requireAllTags kept one record where
\* any-tag matching keeps two.
C2_Witness ==
    /\ op = "filter"
    /\ filterTags = <<" ", "T", " ", "u", " ">>
    /\ requireAllTags
    /\ Len(entries) = 1
    /\ Len(FilterEntries(db, filterTags, FALSE, {})) = 2

\* C9: filter() with the "no tags" sentinel keeps exactly the persisted records
\* whose tag string is empty after trimming, whatever requireAllTags is.
C9_NoTagsSentinel ==
    (op = "filter" /\ filterTags = None) =>
        /\ RowsOf(entries) = { r \in Range(db) : HasNoTags(r) }
        /\ Len(entries) = Cardinality({ r \in Range(db) : HasNoTags(r) })

\* C9 witness: under the sentinel, with requireAllTags set, one of two records
\* was kept.
C9_Witness ==
    /\ op = "filter"
    /\ filterTags = None
    /\ requireAllTags
    /\ Len(db) = 2
    /\ Len(entries) = 1

\* The entries of list that have the keyword, in their order in list.
WithKeyword(list, keyword) == SelectSeq(list, LAMBDA e : HasKeyword(e, keyword))

\* C8: search() keeps exactly the entries of the current list whose term,
\* definition or tag string contains searchKeyword case-insensitively, in their
\* order (so none that filter() left out); with an empty searchKeyword it keeps
\* all, and build() yields the set filter() alone yields.
C8_SearchNarrows ==
    /\ [][op' = "search" => entries' = WithKeyword(entries, searchKeyword)]_vars
    /\ []((op = "build" /\ searchKeyword = <<>>) =>
            UidsOf(entries) = UidsOf(FilterEntries(db, filterTags, requireAllTags, {})))

\* C8 witness: a search for a keyword found only in tag strings kept one of
\* the two records that pass the filter.
C8_Witness ==
    /\ op = "search"
    /\ searchKeyword = <<"t">>
    /\ Len(entries) = 1
    /\ Len(FilterEntries(db, filterTags, requireAllTags, {})) = 2

-----------------------------------------------------------------------------
(* Claims on the selection (SpecSelect) *)

\* C4 as stated: after any sequence of build, select, unselect and selectAll
\* calls no record (uid) appears in SelectedList.entries more than once.
C4_NoRecordTwice ==
    \A i, j \in 1..Len(selected) : i # j => selected[i].uid # selected[j].uid

\* C4, amended: no Entry object appears in SelectedList.entries more than once,
\* and selecting an Entry object that is already a member leaves the list
\* unchanged (membership is identity of the object, not the record's uid).
C4_NoObjectTwice ==
    /\ \A i, j \in 1..Len(selected) : i # j => selected[i].oid # selected[j].oid
    /\ (op = "select" /\ IsMember(arg.entry, arg.list)) => selected = arg.list

\* C4 witness: select was called on an entry that was already a member, of a
\* list holding two objects.
C4_Witness ==
    /\ op = "select"
    /\ IsMember(arg.entry, arg.list)
    /\ Len(selected) = 2

\* C11: after DisplayList.selectAll(selectedList) every entry of
\* DisplayList.entries is a member of selectedList.entries, every entry that was
\* a member before the call still is, and each entry appears once; a second
\* selectAll leaves selectedList.entries unchanged.
C11_SelectAllCovers ==
    [][op' = "selectAll" =>
          /\ \A i \in 1..Len(entries) : IsMember(entries[i], selected')
          /\ \A i \in 1..Len(selected) : IsMember(selected[i], selected')
          /\ \A i, j \in 1..Len(selected') :
                 i # j => selected'[i].oid # selected'[j].oid
          /\ SelectAllInto(entries', selected') = selected'
          /\ (op = "selectAll" => selected' = selected)]_vars

\* C11 witness: selectAll has run on two displayed entries, the selection
\* holding an object of an earlier build besides them, and a second selectAll
\* would leave the selection as it is.
C11_Witness ==
    /\ op = "selectAll"
    /\ Len(entries) = 2
    /\ Len(selected) = 3
    /\ ~IsMember(selected[1], entries)
    /\ SelectAllInto(entries, selected) = selected

-----------------------------------------------------------------------------
(* What an import is meant to do, stated on positions of the text *)

\* s without its leading and trailing whitespace: from its first to its last
\* character that is not whitespace.
Trimmed(s) ==
    LET keep == { k \in 1..Len(s) : ~IsSpace(s[k]) }
    IN  IF keep = {} THEN <<>>
        ELSE SubSeq(s, CHOOSE k \in keep : \A m \in keep : k <= m,
                       CHOOSE k \in keep : \A m \in keep : m <= k)

\* The positions of t where a match of pattern starts: every occurrence of the
\* character, or for "\n+" the first newline of every run.
MatchStarts(t, pattern) ==
    LET c == IF pattern \in {"\n", "\n+"} THEN NL ELSE pattern
    IN  { p \in 1..Len(t) :
            /\ t[p] = c
            /\ (pattern = "\n+" => (p = 1 \/ t[p - 1] # c)) }

\* The last position of the match that starts at p.
MatchEnd(t, pattern, p) ==
    IF pattern = "\n+"
    THEN CHOOSE q \in p..Len(t) :
            /\ \A k \in p..q : t[k] = NL
            /\ (q = Len(t) \/ t[q + 1] # NL)
    ELSE p

\* The k-th smallest element of a set of positions.
Kth(positions, k) ==
    CHOOSE p \in positions : Cardinality({ q \in positions : q < p }) = k - 1

\* The chunks of a text: its trimmed form cut at every match of the pattern.
ChunkCount(text, pattern) == Cardinality(MatchStarts(Trimmed(text), pattern)) + 1

Chunk(text, pattern, k) ==
    LET t      == Trimmed(text)
        starts == MatchStarts(t, pattern)
        from   == IF k = 1 THEN 1 ELSE MatchEnd(t, pattern, Kth(starts, k - 1)) + 1
        to     == IF k = Cardinality(starts) + 1 THEN Len(t) ELSE Kth(starts, k) - 1
    IN  SubSeq(t, from, to)

\* The term a chunk gives: what stands before its first delimiter (all of it
\* when there is none), trimmed.
TermOf(chunk, delimiter) ==
    LET at == { k \in 1..Len(chunk) : chunk[k] = delimiter }
    IN  IF at = {} THEN Trimmed(chunk)
        ELSE Trimmed(SubSeq(chunk, 1, (CHOOSE k \in at : \A m \in at : k <= m) - 1))

\* A line is good when it has a colon with something other than whitespace
\* before the first one and something other than whitespace after it.
GoodLine(line) ==
    \E c \in 1..Len(line) :
        /\ line[c] = ":"
        /\ \A k \in 1..(c - 1) : line[k] # ":"
        /\ \E k \in 1..(c - 1) : ~IsSpace(line[k])
        /\ \E k \in (c + 1)..Len(line) : ~IsSpace(line[k])

HasBadLine(text) ==
    \E k \in 1..ChunkCount(text, "\n+") : ~GoodLine(Chunk(text, "\n+", k))

\* The rows n staged entries become, the first getting uid first.
RowsFor(staged, first) ==
    [i \in 1..Len(staged) |->
        Row(first + i - 1, staged[i].term, staged[i].definition,
            Trimmed(staged[i].tags), staged[i].createdAt)]

-----------------------------------------------------------------------------
(* Claims on imports (SpecImport, and SpecParse for parseText) *)

\* C5: validateEntries is all-or-nothing: when some line of rawText (trimmed,
\* split on runs of newlines) is not a good line, it returns false and
\* parsedEntries is empty afterwards, whatever was staged from earlier lines
\* or before the call.
C5_ValidateAllOrNothing ==
    (op = "validateEntries" /\ HasBadLine(rawText)) =>
        (ret = FALSE /\ parsedEntries = <<>>)

\* C5 witness: validateEntries ran on a good line followed by a line without
\* a colon, with two entries staged before the call.
C5_Witness ==
    /\ op = "validateEntries"
    /\ rawText = <<"a", ":", "b", NL, "x">>
    /\ Len(arg.staged) = 2
    /\ parsedEntries = <<>>
    /\ ret = FALSE

\* C6: importAndClear with n staged entries appends n rows, one per staged
\* entry in staged order with its term, definition, trimmed tags and
\* createdAt, empties rawText and parsedEntries, keeps the delimiters and
\* massTags, and returns n; called again at once it adds no row and returns 0.
C6_ImportAndClear ==
    /\ [][op' = "importAndClear" =>
            /\ db' = db \o RowsFor(parsedEntries, nextUid)
            /\ ret' = Len(parsedEntries)
            /\ rawText' = <<>>
            /\ parsedEntries' = <<>>
            /\ entryDelimiter' = entryDelimiter
            /\ termDefinitionDelimiter' = termDefinitionDelimiter
            /\ massTags' = massTags]_vars
    /\ [][(op = "importAndClear" /\ op' = "importAndClear") =>
            (db' = db /\ ret' = 0)]_vars

\* C6 witness: two entries staged under mass tags with blanks around them were
\* imported at a later second than they were staged.
C6_Witness ==
    /\ op = "importAndClear"
    /\ ret = 2
    /\ Len(db) = 2
    /\ massTags = <<" ", "t", " ">>
    /\ db[2].tags = <<"t">>
    /\ db[2].createdAt < now

\* C13: importAndClear is not atomic: when the insert of the k-th staged entry
\* fails, the rows of the k-1 entries inserted before it stay in the table and
\* the error reaches the caller.
C13_ImportNotAtomic ==
    [][op' = "importAndClearRaised" =>
          /\ db' = db \o RowsFor(SubSeq(parsedEntries, 1, arg'.failed - 1), nextUid)
          /\ ret' = Raised]_vars

\* C13 witness: the insert of the second of two staged entries failed, and the
\* row of the first is in the table.
C13_Witness ==
    /\ op = "importAndClearRaised"
    /\ arg.failed = 2
    /\ Len(parsedEntries) = 2
    /\ Len(db) = 1
    /\ db[1].term = parsedEntries[1].term

\* The tags column of a fetched row as text: a NULL is no tags.
TagsText(row) == IF row[4] = None THEN <<>> ELSE row[4]

\* C14: importDB stages one new Entry per row of the foreign master table, in
\* row order (after whatever was staged already), with the row's term and
\* definition and with tags equal to the trimmed massTags, a space and the
\* row's trimmed tags, the whole trimmed again: the mass tags come before the
\* row's tags, do not replace them, and a repeated tag stays repeated.
C14_ImportDBStagesRows ==
    [][op' = "importDB" =>
          LET n == Len(parsedEntries)
              rows == arg'.rows
          IN  /\ Len(parsedEntries') = n + Len(rows)
              /\ SubSeq(parsedEntries', 1, n) = parsedEntries
              /\ \A k \in 1..Len(rows) :
                    LET e == parsedEntries'[n + k]
                    IN  /\ e.term = rows[k][2]
                        /\ e.definition = rows[k][3]
                        /\ e.tags = Trimmed(Trimmed(massTags) \o <<" ">>
                                            \o Trimmed(TagsText(rows[k])))
                        /\ e.uid = NoUid
                        /\ \A j \in 1..(n + Len(rows)) :
                              j # n + k => parsedEntries'[j].oid # e.oid]_vars

\* C14 witness: under mass tags " t " a file with the one row (c, d, "t") was
\* read after a file with two rows, the second with NULL tags; the third
\* staged entry carries the tag twice.
C14_Witness ==
    /\ op = "importDB"
    /\ massTags = <<" ", "t", " ">>
    /\ Len(parsedEntries) = 3
    /\ parsedEntries[1].tags = <<"t", " ", "t", " ", " ", "u">>
    /\ parsedEntries[2].tags = <<"t">>
    /\ parsedEntries[3].tags = <<"t", " ", "t">>

\* The definition a line gives: what stands after its first delimiter,
\* trimmed (nothing when there is no delimiter).
DefinitionOf(chunk, delimiter) ==
    LET at == { k \in 1..Len(chunk) : chunk[k] = delimiter }
    IN  IF at = {} THEN <<>>
        ELSE Trimmed(SubSeq(chunk, (CHOOSE k \in at : \A m \in at : k <= m) + 1,
                            Len(chunk)))

\* C20: validateEntries returns true exactly when every line of the trimmed
\* rawText (cut at runs of newlines) splits at its first colon into a non-empty
\* trimmed term and a non-empty trimmed definition; on true parsedEntries holds
\* one Entry per line, in line order, with that term and definition and with
\* tags equal to massTags.  Nothing of this reads entryDelimiter or
\* termDefinitionDelimiter, whatever they are set to.
C20_ValidateEntriesOutcome ==
    op = "validateEntries" =>
        /\ ret = ~HasBadLine(rawText)
        /\ ret =>
              /\ Len(parsedEntries) = ChunkCount(rawText, "\n+")
              /\ \A k \in 1..Len(parsedEntries) :
                    /\ parsedEntries[k].term = TermOf(Chunk(rawText, "\n+", k), ":")
                    /\ parsedEntries[k].definition =
                          DefinitionOf(Chunk(rawText, "\n+", k), ":")
                    /\ parsedEntries[k].tags = massTags

\* C20 witness: with the delimiters set to ";" and "=", validateEntries
\* accepted the two lines " a :b" and "x:z " and staged both under the mass
\* tags " t ".
C20_Witness ==
    /\ op = "validateEntries"
    /\ ret = TRUE
    /\ entryDelimiter = ";"
    /\ termDefinitionDelimiter = "="
    /\ Len(parsedEntries) = 2
    /\ parsedEntries[1].term = <<"a">>
    /\ parsedEntries[2].definition = <<"z">>
    /\ massTags = <<" ", "t", " ">>

\* C7: parseText returns one tuple per chunk of the trimmed rawText split on
\* entryDelimiter, the k-th tuple carrying the k-th chunk's term, and its flag
\* is false exactly when some returned tuple has an empty term or definition.
C7_ParseTextTuples ==
    op = "parseText" =>
        /\ Len(ret.entries) = ChunkCount(rawText, entryDelimiter)
        /\ \A k \in 1..Len(ret.entries) :
              ret.entries[k][1] =
                  TermOf(Chunk(rawText, entryDelimiter, k), termDefinitionDelimiter)
        /\ (ret.ok = FALSE) <=>
              (\E k \in 1..Len(ret.entries) :
                  ret.entries[k][1] = <<>> \/ ret.entries[k][2] = <<>>)

\* C7 witness: on "a:" and "x:z" split on newline runs, the lookup for "a"
\* found nothing; both tuples came back and the flag was false.
C7_Witness ==
    /\ op = "parseText"
    /\ rawText = <<"a", ":", NL, "x", ":", "z">>
    /\ entryDelimiter = "\n+"
    /\ termDefinitionDelimiter = ":"
    /\ ret.ok = FALSE
    /\ ret.entries = << <<<<"a">>, <<>>>>, <<<<"x">>, <<"z">>>> >>

-----------------------------------------------------------------------------
(* Claims on the application (Spec) *)

\* C10: after every completed user action every entry of SelectedList.entries
\* is an element of the current DisplayList.entries, and an action that rebuilt
\* the display list left the selection empty.
C10_SelectionWithinDisplay ==
    /\ \A i \in 1..Len(selected) : IsMember(selected[i], entries)
    /\ ret = "rebuilt" => selected = <<>>

\* C10 witness: the second of two displayed entries is selected through its
\* checkbox, under a search keyword set by an earlier rebuild.
C10_Witness ==
    /\ op = "userAction"
    /\ ret = "kept"
    /\ Len(entries) = 2
    /\ selectedVars = <<0, 1>>
    /\ selected = <<entries[2]>>
    /\ searchKeyword = <<"a">>

\* C12: in the text import action, when validateEntries() returns false the
\* persisted store is unchanged: importAndClear() is not called (rawText still
\* holds the text read from the textbox, which importAndClear would have
\* emptied) and no row of the batch, not even of its good lines, is written.
C12_InvalidImportWritesNothing ==
    [][(DOMAIN arg' = {"text"} /\ HasBadLine(arg'.text)) =>
          /\ db' = db
          /\ nextUid' = nextUid
          /\ rawText' = arg'.text
          /\ parsedEntries' = <<>>]_vars

\* C12 witness: the import handler has just refused a text whose first line is
\* good and whose second is not, over a table that holds a row.
C12_Witness ==
    /\ DOMAIN arg = {"text"}
    /\ HasBadLine(arg.text)
    /\ GoodLine(Chunk(arg.text, "\n+", 1))
    /\ rawText = arg.text
    /\ ret = "kept"
    /\ Len(db) = 1

\* A database file is malformed when it has no master table, or its columns
\* are not uid, term, definition, tags, or the table has no row.
Malformed(file) ==
    \/ ~file.master
    \/ file.columns # <<"uid", "term", "definition", "tags">>
    \/ file.rows = <<>>

\* C15: in the database import action a file that lacks the master table, has
\* the wrong columns or has no row is refused before anything is staged:
\* importDB and importAndClear are not called (the ImportList keeps its mass
\* tags and its rawText), parsedEntries stays empty and the table is unchanged.
C15_MalformedFileRefused ==
    [][(DOMAIN arg' = {"file"} /\ Malformed(arg'.file)) =>
          /\ db' = db
          /\ nextUid' = nextUid
          /\ parsedEntries = <<>>
          /\ parsedEntries' = <<>>
          /\ massTags' = massTags
          /\ rawText' = rawText
          /\ ret' = "kept"]_vars

\* C15 witness: a file whose table has createdAt as a fifth column, and a
\* row, has just been refused over a table that holds a row.
C15_Witness ==
    /\ DOMAIN arg = {"file"}
    /\ arg.file.master
    /\ Len(arg.file.columns) = 5
    /\ Len(arg.file.rows) = 1
    /\ ret = "kept"
    /\ Len(db) = 1

\* C16 as stated: after any sequence of Add, Edit, Bulk Add and Import actions
\* every persisted record has a non-empty term and a non-empty definition.
C16_TermAndDefinitionNonEmpty ==
    \A i \in 1..Len(db) : db[i].term # <<>> /\ db[i].definition # <<>>

-----------------------------------------------------------------------------
(* Claims on stored records (SpecEdit) *)

\* C17: no operation changes the uid or the createdAt of a record once it is
\* stored (a row of the table after a step that was there before it has the
\* createdAt it had), and Entry.edit rewrites only the term, the definition
\* and the (trimmed) tags of the row whose uid is the entry's, leaving every
\* other row as it was.
C17_EditKeepsUidAndCreatedAt ==
    [][/\ \A j \in 1..Len(db') :
              db'[j].uid < nextUid =>
                  \E i \in 1..Len(db) : /\ db[i].uid = db'[j].uid
                                        /\ db[i].createdAt = db'[j].createdAt
       /\ \A i, j \in 1..Len(db') : i # j => db'[i].uid # db'[j].uid
       /\ op' = "edit" =>
              /\ Len(db') = Len(db)
              /\ \A i \in 1..Len(db) :
                    db'[i] = IF db[i].uid = arg'.uid
                             THEN Row(arg'.uid, arg'.term, arg'.definition,
                                      Trimmed(arg'.tags), db[i].createdAt)
                             ELSE db[i]]_vars

\* C17 witness: of two rows stored at different seconds the second has just
\* been edited to (c, d, t); the first is as it was added.
C17_Witness ==
    /\ op = "edit"
    /\ Len(db) = 2
    /\ arg.uid = db[2].uid
    /\ db[2].term = <<"c">>
    /\ db[2].tags = <<"t">>
    /\ db[1].term # <<"c">>
    /\ db[1].createdAt < db[2].createdAt

-----------------------------------------------------------------------------
(* Claims on batch operations of the selection (SpecSelect) *)

C19_UnselectAllEmpties ==
    op = "unselectAll" => selected = <<>>

-----------------------------------------------------------------------------
(* Claims on the definition lookup of parseText (SpecParse) *)

\* C21: parseText uses the external lookup for a chunk exactly when the chunk
\* gives no definition (no delimiter, or nothing but whitespace after it): a
\* definition given in the text is returned as given whatever the service
\* would answer, and a chunk without one gets the summary found (its colons
\* replaced) or, when the lookup finds nothing or raises, the empty definition.
\* parseText then still returns one tuple per chunk, and its flag is false.
C21_LookupOnlyWhenNeeded ==
    op = "parseText" =>
        /\ DOMAIN ret = {"ok", "entries"}
        /\ Len(ret.entries) = ChunkCount(rawText, entryDelimiter)
        /\ \A k \in 1..Len(ret.entries) :
              LET chunk == Chunk(rawText, entryDelimiter, k)
                  term  == TermOf(chunk, termDefinitionDelimiter)
                  given == DefinitionOf(chunk, termDefinitionDelimiter)
              IN  IF given # <<>> THEN ret.entries[k][2] = given
                  ELSE IF arg.outcomes[k] \in {None, Raised} \/ term = <<>>
                       THEN ret.entries[k][2] = <<>> /\ ret.ok = FALSE
                       ELSE ret.entries[k][2] = <<"a", ";", "b">>

\* C21 witness: of the two chunks "a:b" and "x" the first kept its definition
\* though the service had a summary to give, and the lookup for the second
\* raised; both tuples came back, the second with an empty definition.
C21_Witness ==
    /\ op = "parseText"
    /\ Len(ret.entries) = 2
    /\ arg.outcomes[1] = Summary
    /\ ret.entries[1][2] = <<"b">>
    /\ arg.outcomes[2] = Raised
    /\ ret.entries[2][1] = <<"x">>
    /\ ret.entries[2][2] = <<>>
    /\ ret.ok = FALSE

-----------------------------------------------------------------------------
(* Further claims on Helper.quickSort (SpecSort) *)

\* C22: sorting is idempotent: for each of the four attributes, quickSort
\* applied to the list quickSort returned, under the same attribute, returns
\* that list again, in the identical order.
C22_QuickSortIdempotent ==
    op = "quickSort" => QuickSort(ret, arg.attribute) = ret

\* C22 witness: quickSort reordered three entries two of which have equal keys
\* (terms equal but for their case); the result sorts to itself.
C22_Witness ==
    /\ op = "quickSort"
    /\ arg.attribute = "alphabeticalAscending"
    /\ Len(arg.list) = 3
    /\ ret # arg.list
    /\ \E i, j \in 1..3 :
          /\ ret[i].oid # ret[j].oid
          /\ Lower(ret[i].term) = Lower(ret[j].term)
    /\ QuickSort(ret, arg.attribute) = ret

\* q read backwards.
Reversed(q) == [i \in 1..Len(q) |-> q[Len(q) + 1 - i]]

\* The list with its elements rearranged by the permutation p of its positions.
Rearranged(list, p) == [i \in 1..Len(list) |-> list[p[i]]]

\* C23: for every list of entries with pairwise distinct uids, the
\* dateDescending order quickSort gives is the exact reverse of the
\* dateAscending order, and each of the two is the same for every arrangement
\* of the input, also when entries share their createdAt.
C23_DateOrdersAreReverses ==
    (/\ op = "quickSort"
     /\ arg.attribute \in {"dateAscending", "dateDescending"}
     /\ \A i, j \in 1..Len(arg.list) : i # j => arg.list[i].uid # arg.list[j].uid) =>
        /\ ret = Reversed(QuickSort(arg.list,
                                    IF arg.attribute = "dateAscending"
                                    THEN "dateDescending" ELSE "dateAscending"))
        /\ \A p \in Permutations(1..Len(arg.list)) :
              QuickSort(Rearranged(arg.list, p), arg.attribute) = ret

\* C23 witness: a dateDescending sort of three entries with distinct uids, two
\* of them created in the same second, that had to reorder them.
C23_Witness ==
    /\ op = "quickSort"
    /\ arg.attribute = "dateDescending"
    /\ Len(arg.list) = 3
    /\ \A i, j \in 1..3 : i # j => arg.list[i].uid # arg.list[j].uid
    /\ \E i, j \in 1..3 : i # j /\ arg.list[i].createdAt = arg.list[j].createdAt
    /\ ret # arg.list

\* How often the object e occurs in a list.
Occurrences(e, list) == Cardinality({ i \in 1..Len(list) : list[i].oid = e.oid })

\* C27 as stated: quickSort never loses or duplicates an entry: for every input
\* list and every attribute string, one that is none of the four names
\* included, the returned list is a permutation of the input list.
C27_QuickSortPermutes ==
    op = "quickSort" =>
        /\ Len(ret) = Len(arg.list)
        /\ \A i \in 1..Len(arg.list) :
              Occurrences(arg.list[i], ret) = Occurrences(arg.list[i], arg.list)

-----------------------------------------------------------------------------
(* Claims on the database import (SpecImportDB, SpecWrite) *)

\* C24 as stated: for an entry imported from a foreign database the createdAt
\* persisted for the new row is the time of its insert into the store (in
\* importAndClear), not the time at which importDB staged it.
C24_CreatedAtIsInsertTime ==
    [][op' = "importAndClear" =>
          \A j \in (Len(db) + 1)..Len(db') : db'[j].createdAt = now]_vars

\* C25: a filter or a search that matches nothing ends in an empty view and
\* no error.  After every rebuild the "dictionary is empty" text is up exactly
\* when the table has no rows, the "no results match" text exactly when the
\* table has rows and the view is empty, and no text when the view is not
\* empty.
C25_EmptyMessageStates ==
    ret = "rebuilt" =>
        /\ emptyMessage \in {"hidden", "dictionaryEmpty", "noResults"}
        /\ emptyMessage = "dictionaryEmpty" <=> Len(db) = 0
        /\ emptyMessage = "noResults" <=> (Len(db) > 0 /\ entries = <<>>)
        /\ entries # <<>> => emptyMessage = "hidden"

\* A search that no row matches was run over a table with rows: the view is
\* empty and "no results match" is shown.
C25_Witness ==
    /\ ret = "rebuilt"
    /\ searchKeyword # <<>>
    /\ Len(db) > 0
    /\ entries = <<>>
    /\ emptyMessage = "noResults"

\* C26: after Delete Selected or the sidebar's Delete, when the list rebuilt
\* under the filter and search in force is empty, filterTags is "",
\* requireAllTags false and searchKeyword "", and the list is rebuilt without
\* them; so after a delete the displayed list is empty only if the table has
\* no rows.
C26_DeleteResetsFilters ==
    [][(SidebarDeleteButtonCommand \/ DeleteSelectedButtonCommand) =>
          /\ BuildEntries(entries, db', filterTags, requireAllTags, searchKeyword,
                          sortAttribute, {}) = <<>>
                => /\ filterTags' = <<>>
                   /\ requireAllTags' = FALSE
                   /\ searchKeyword' = <<>>
                   /\ Len(entries') = Len(db')
          /\ entries' = <<>> => db' = <<>>]_vars

\* A delete pressed under a search left a row that the search does not
\* match: the search is gone and that row is displayed.
C26_Witness ==
    /\ op = "userAction" /\ ret = "rebuilt"
    /\ DOMAIN arg = {"tags", "keyword"}
    /\ arg.keyword # <<>>
    /\ searchKeyword = <<>>
    /\ Len(db) = 1
    /\ Len(entries) = 1
    /\ ~ MatchesKeyword(entries[1], arg.keyword)

\* C28: when the Parse action's parseText reports success, the text it
\* writes back to the textbox (one "term: definition" line per returned
\* tuple) is accepted by validateEntries, which stages exactly the returned
\* (term, definition) pairs in the same order.
C28_ParseThenImportRoundTrips ==
    (op = "parseButtonCommand" /\ ret.successfulParse) =>
        LET v == ValidateEntries(ret.importTextbox, massTags, now, {})
        IN  /\ v.ok
            /\ Len(v.staged) = Len(ret.trialParsedEntries)
            /\ \A i \in 1..Len(v.staged) :
                   <<v.staged[i].term, v.staged[i].definition>>
                       = ret.trialParsedEntries[i]

-----------------------------------------------------------------------------
(* Claims on the export and import of a database file (SpecExport) *)

\* The dateAscending order of records with pairwise different (createdAt, uid):
\* the arrangement in which no record comes after one it goes before.
DateAscendingOrder(list) ==
    CHOOSE q \in { Rearranged(list, p) : p \in Permutations(1..Len(list)) } :
        \A i, j \in 1..Len(q) : i < j => ~Before(q[j], q[i], "dateAscending")

\* The step imports, with empty mass tags, the file the step before exported
\* with includeTags.
ImportsExportedFile ==
    /\ op = "exportToDB" /\ arg.includeTags
    /\ op' = "userAction" /\ DOMAIN arg' = {"file"} /\ arg'.file = ret

\* The file passed the checks, and the table gained one record per exported
\* entry, the records and the entries agreeing in dateAscending order on term,
\* definition and trimmed tags.
ExportRoundTrips ==
    /\ ~Malformed(ret)
    /\ Len(db') = Len(db) + Len(arg.entries)
    /\ SubSeq(db', 1, Len(db)) = db
    /\ LET imported == DateAscendingOrder(SubSeq(db', Len(db) + 1, Len(db')))
           exported == DateAscendingOrder(arg.entries)
       IN  \A i \in 1..Len(exported) :
              /\ imported[i].term = exported[i].term
              /\ imported[i].definition = exported[i].definition
              /\ imported[i].tags = Trimmed(exported[i].tags)

\* C29 as stated: every file exportToDB(includeTags=true) writes passes the
\* import action's table, column and row-count checks, and its import with
\* empty mass tags adds one record per exported entry with the same term,
\* definition and trimmed tags, the dateAscending order of the records being
\* that of the exported entries.
C29_ExportThenImport ==
    [][ImportsExportedFile => ExportRoundTrips]_vars

\* C29, amended: the same for every file exportToDB(includeTags=true) writes
\* from a list that is not empty.
C29_ExportThenImportNonEmpty ==
    [][(ImportsExportedFile /\ arg.entries # <<>>) => ExportRoundTrips]_vars

\* A file of two rows, exported from two entries with different terms, was
\* imported: the table holds the two twice, the copies stamped with one time
\* and in the order of the originals.
C29_Witness ==
    /\ op = "userAction" /\ ret = "rebuilt"
    /\ DOMAIN arg = {"file"}
    /\ Len(arg.file.rows) = 2
    /\ Len(db) = 4
    /\ db[1].term # db[2].term
    /\ db[3].term = db[1].term /\ db[4].term = db[2].term
    /\ db[3].createdAt = db[4].createdAt

-----------------------------------------------------------------------------
(* Claims on the uid of Entry objects (SpecAdd) *)

\* C30: add() inserts a row and leaves the object's uid as it was: an Entry
\* built without a uid has uid None after add(), and a later edit() or
\* delete() on that object changes no row of the table.  The entries a
\* build puts in the DisplayList carry the uid of their row.
C30_AddLeavesUid ==
    [][/\ (op' = "add" =>
              /\ Len(db') = Len(db) + 1
              /\ arg'.self.uid = NoUid)
       /\ ((op' \in {"edit", "delete"} /\ DOMAIN arg' = {"self"}) =>
              /\ arg'.self.uid = NoUid
              /\ db' = db)
       /\ (op' = "build" =>
              \A i \in 1..Len(entries') :
                 \E j \in 1..Len(db') :
                    /\ entries'[i].uid = db'[j].uid
                    /\ entries'[i].term = db'[j].term)]_vars

\* An entry was added and then deleted through the object add() was called
\* on: its row is still in the table.
C30_Witness ==
    /\ op = "delete"
    /\ DOMAIN arg = {"self"}
    /\ arg.self.uid = NoUid
    /\ \E j \in 1..Len(db) :
          db[j].term = arg.self.term /\ db[j].createdAt = arg.self.createdAt

=============================================================================
